---------------------------- MODULE Spec2Model ----------------------------
(***************************************************************************)
(* Node-local request-batching agents of serverless-benchmarks.            *)
(*                                                                         *)
(* Four batchers are modelled, each from its own source:                   *)
(*   kind = "S3"     S3Batcher, one execution / N deliveries               *)
(*                   (src/unnamed/part_011)                                *)
(*   kind = "Redis"  RedisBatcher, coalescing + one pipeline per batch     *)
(*                   (src/openwhisk/s3/batching-agent/Dockerfile, 156-539) *)
(* together with the BatchingAgent front and lifecycle that drive them     *)
(*   (src/openwhisk/s3/batching-agent/cmd/agent/main.go,                   *)
(*    src/unnamed/part_003 lines 1-449): specification Spec; and           *)
(*   kind = "Simple" Batcher of the simple key-value agent, one pipeline   *)
(*                   command per request (src/unnamed/part_003, 450-941):  *)
(*                   specification SpecSimple; and                         *)
(*   kind = "S3Forward" the S3Batcher revision whose processBatch executes *)
(*                   the first request of a group and forwards what it     *)
(*                   reads from that request's channels to the others      *)
(*                   (src/unnamed/part_010): specification SpecForward.    *)
(* SpecFront adds the routes that end before Submit, SpecStart the         *)
(* constructors of the key-value batchers with their Ping, and SpecParse   *)
(* the part of each main that turns flags and environment variables into   *)
(* the Configuration.                                                      *)
(* Strings are sequences of one-character strings, so that joining and     *)
(* splitting grouping keys is computed, not assumed.                       *)
(***************************************************************************)
EXTENDS Integers, Sequences, FiniteSets, TLC

(***************************************************************************)
(* Bounds of the model.                                                    *)
(***************************************************************************)
\* number of HTTP requests that arrive in one run
NReq == 2
\* the largest max_batch_size (flag --max-batch-size) a run is configured with
MaxBatchSize == 2
\* the number of chunks io.Copy reads an object's body in
BodyLen == 2

(***************************************************************************)
(* Program constants.                                                      *)
(***************************************************************************)
\* pendingRequests: make(chan *BatchRequest, maxBatchSize*10)
BufferFactor == 10
\* handleListObjects: maxKeys := int32(1000)
DefaultMaxKeys == 1000
\* net/http status codes the handlers answer with
StatusOK == 200
StatusBadRequest == 400
StatusInternalServerError == 500

Ids == 1..NReq

(***************************************************************************)
(* Strings.                                                                *)
(***************************************************************************)
EmptyStr == <<>>
Colon == ":"
sA == <<"a">>
sAA == <<"a", ":", "a">>

Digit(d) == CASE d = 0 -> "0" [] d = 1 -> "1" [] d = 2 -> "2" [] d = 3 -> "3"
              [] d = 4 -> "4" [] d = 5 -> "5" [] d = 6 -> "6" [] d = 7 -> "7"
              [] d = 8 -> "8" [] d = 9 -> "9"

RECURSIVE FormatInt(_)
\* fmt's %d of a non-negative integer
FormatInt(n) == IF n < 10 THEN <<Digit(n)>>
                ELSE FormatInt(n \div 10) \o <<Digit(n % 10)>>

\* fmt.Sprintf("%s:%s", a, b)
Sprintf2(a, b) == a \o <<Colon>> \o b
\* fmt.Sprintf("%s:%s:%d", a, b, n)
Sprintf3(a, b, n) == a \o <<Colon>> \o b \o <<Colon>> \o FormatInt(n)

\* index of the first ':' of s, or Len(s)+1 when there is none
FirstColon(s) == IF \E i \in 1..Len(s) : s[i] = Colon
                 THEN CHOOSE i \in 1..Len(s) :
                        s[i] = Colon /\ \A j \in 1..(i-1) : s[j] # Colon
                 ELSE Len(s) + 1

\* splitKeyValue: everything before the first ':' is the key, everything
\* after it (later ':' included) is the value; always two parts
splitKeyValue(keyValue) ==
    LET i == FirstColon(keyValue)
    IN  << SubSeq(keyValue, 1, i - 1), SubSeq(keyValue, i + 1, Len(keyValue)) >>

(***************************************************************************)
(* Requests.                                                               *)
(***************************************************************************)
TypeGetObject == "GetObject"
TypeListObjects == "ListObjects"
TypeListBuckets == "ListBuckets"
TypeGet == "Get"
TypeSet == "Set"
TypeDel == "Del"
TypeExists == "Exists"
\* a Type string outside the closed set of either package
TypeOther == "Other"

\* BatchRequest of both packages in one record; a package ignores the
\* fields it does not have
BatchRequest(t, bucket, key, prefix, maxKeys, value) ==
    [Type |-> t, BucketName |-> bucket, Key |-> key, Prefix |-> prefix,
     MaxKeys |-> maxKeys, Value |-> value]

\* parameter strings the callers send
ParamStrs == {sA, sAA}

\* the requests the S3 front builds in this model: two GetObject whose
\* (bucket, key) differ but join to the same "a:a:a", a third GetObject, a
\* ListObjects, a ListBuckets, and one request of unknown type
S3Requests ==
    {BatchRequest(TypeGetObject, sAA, sA, EmptyStr, 0, EmptyStr),
     BatchRequest(TypeGetObject, sA, sAA, EmptyStr, 0, EmptyStr),
     BatchRequest(TypeGetObject, sA, sA, EmptyStr, 0, EmptyStr),
     BatchRequest(TypeListObjects, sA, EmptyStr, EmptyStr, DefaultMaxKeys, EmptyStr),
     BatchRequest(TypeListBuckets, EmptyStr, EmptyStr, EmptyStr, 0, EmptyStr),
     BatchRequest(TypeOther, EmptyStr, EmptyStr, EmptyStr, 0, EmptyStr)}

\* the requests the Redis front builds in this model: a Get of a key that
\* exists and of one that does not, two Set whose (key, value) differ but
\* join to the same "a:a:a", a Del, an Exists, and one of unknown type
RedisRequests ==
    {BatchRequest(TypeGet, EmptyStr, sA, EmptyStr, 0, EmptyStr),
     BatchRequest(TypeGet, EmptyStr, sAA, EmptyStr, 0, EmptyStr),
     BatchRequest(TypeSet, EmptyStr, sAA, EmptyStr, 0, sA),
     BatchRequest(TypeSet, EmptyStr, sA, EmptyStr, 0, sAA),
     BatchRequest(TypeDel, EmptyStr, sA, EmptyStr, 0, EmptyStr),
     BatchRequest(TypeExists, EmptyStr, sA, EmptyStr, 0, EmptyStr),
     BatchRequest(TypeOther, EmptyStr, EmptyStr, EmptyStr, 0, EmptyStr)}

\* the zero BatchRequest: no request built yet
NoRequest == BatchRequest("", EmptyStr, EmptyStr, EmptyStr, 0, EmptyStr)

(***************************************************************************)
(* Values that travel over ResultChan / ErrorChan.  rep is the request     *)
(* whose backend call produced the value (0: no backend call), so that two *)
(* responses of two calls are never equal by accident.                     *)
(***************************************************************************)
Result(str, num, rep) == [ok |-> TRUE, str |-> str, num |-> num, rep |-> rep]
Error(msg, rep) == [ok |-> FALSE, str |-> <<msg>>, num |-> 0, rep |-> rep]
NoValue == [ok |-> FALSE, str |-> EmptyStr, num |-> 0, rep |-> 0]

\* fmt.Errorf("unsupported request type: %s", ...)
ErrUnsupported == Error("unsupported request type", 0)
\* redis.Nil, the singleton go-redis returns for a missing key
RedisNil == Error("redis: nil", 0)
\* an error of the connection (dial, EOF, timeout)
ErrTransport == Error("transport error", 0)
\* go-redis after client.Close()
ErrClosed == Error("redis: client is closed", 0)
\* the error a "shutting down" Submit would deliver
ErrShuttingDown == Error("batcher is shutting down", 0)

\* one send on a delivery channel: ch is "result" or "error"
Send(r, ch, v) == [to |-> r, ch |-> ch, v |-> v]

(***************************************************************************)
(* State.                                                                  *)
(***************************************************************************)
VARIABLES
    kind,        \* which batcher this process runs
    enabled,     \* S3Batcher.enabled / RedisBatcher.enabled
    req,         \* the BatchRequest each HTTP handler built
    hpc,         \* position of each HTTP handler
    late,        \* history: Submit was called after Shutdown had begun
    pendingRequests, \* the buffered submission channel
    closed,      \* close(pendingRequests) has happened
    wpc,         \* position of the worker goroutine
    batch,       \* the worker's local batch
    timer,       \* the batch-window timer: "off", "armed", "fired" (its
                 \* expiry is readable on timer.C), "stale" (re-armed by
                 \* Reset with an earlier expiry still on timer.C)
    ResultChan,  \* per request: the values buffered in ResultChan
    ErrorChan,   \* per request: the values buffered in ErrorChan
    got,         \* what each handler received from its channels
    store,       \* the Redis server's keyspace
    clientClosed,\* RedisBatcher.client was closed
    lastBatch,   \* history: the batch of the latest processBatch / direct call
    callLog,     \* history: the backend operations that batch issued, in order
    execErr,     \* history: the error pipe.Exec returned for that batch
    direct,      \* history: the latest backend work was a direct (unbatched) one
    lpc,         \* position of main / BatchingAgent.Shutdown
    trips,  \* history: the pipeline round trips (pipe.Exec with commands) of the latest work
    maxBatchSize,  \* S3Batcher.maxBatchSize: the configured --max-batch-size
    sendq,  \* the handlers blocked in a send on pendingRequests, in order
    closes,      \* closes[r]: the Close() calls made so far on the Body of
                 \* the GetObjectOutput that the call made for r returned
    cpc,         \* cpc[r]: handler r and the Body of its GetObjectOutput:
                 \* "none", "copying" (in io.Copy), "closed" (Body.Close()
                 \* was called)
    left,        \* left[r]: the chunks not yet read from the Body of the
                 \* GetObjectOutput that the call made for r returned
    wrote,       \* wrote[r]: the chunks of the object that handler r has
                 \* written to its HTTP response, in order
    todo,        \* read-forward S3Batcher, inside processBatch: the groups
                 \* not yet finished, the current one first
    fi,          \* read-forward S3Batcher: the index i of the copy loop of
                 \* the current group (0: its first request is not executed)
    status,      \* status[r]: the HTTP status code handler r has answered
                 \* with (0: no response yet)
    pingErr,     \* history: the client.Ping of the batcher's constructor
                 \* returned an error
    flagSet,     \* main: the value of each command-line flag after
                 \* flag.Parse() (the flag's default when it was not given)
    environ,     \* the process environment: per variable, whether it is
                 \* set and its string
    config       \* main: the Configuration it builds the agent from

vars == <<kind, enabled, req, hpc, late, pendingRequests, closed, wpc, batch,
          timer, ResultChan, ErrorChan, got, store, clientClosed, lastBatch,
          callLog, execErr, direct, lpc,
          trips,
          maxBatchSize,
          sendq,
          closes,
          cpc,
          left,
          wrote,
          todo,
          fi,
          status,
          pingErr,
          flagSet,
          environ,
          config>>

(***************************************************************************)
(* Configuration: command-line flags and environment variables             *)
(* (src/unnamed/part_003 336-424 and 847-897,                              *)
(*  src/openwhisk/s3/batching-agent/cmd/agent/main.go 331-357).            *)
(* Durations are counted in milliseconds.                                  *)
(***************************************************************************)
\* the five options, by flag name and by environment variable name
FlagNames == {"port", "batching", "batch-window", "max-batch-size", "debug"}
EnvNames == {"PORT", "BATCHING_ENABLED", "BATCH_WINDOW", "MAX_BATCH_SIZE", "DEBUG_MODE"}

\* flag.Int("port", 8080, ...)
DefaultPort == 8080
\* flag.Duration("batch-window", 100*time.Millisecond, ...)
DefaultBatchWindow == 100
\* flag.Int("max-batch-size", 10, ...)
DefaultMaxBatchSize == 10

\* the flag values main reads after flag.Parse()
Flags(port, batching, batchWindow, maxSize, debug) ==
    [f \in FlagNames |->
        CASE f = "port" -> port
          [] f = "batching" -> batching
          [] f = "batch-window" -> batchWindow
          [] f = "max-batch-size" -> maxSize
          [] f = "debug" -> debug]

\* Configuration of the BatchingAgent mains (the fields the five options set)
Configuration(port, batching, batchWindow, maxSize, debug) ==
    [Port |-> port, BatchingEnabled |-> batching, BatchWindow |-> batchWindow,
     MaxBatchSize |-> maxSize, DebugMode |-> debug]

\* Configuration of the simple key-value agent: it has no batching switch
\* and no debug mode
SimpleConfiguration(port, batchWindow, maxSize) ==
    [Port |-> port, BatchWindow |-> batchWindow, MaxBatchSize |-> maxSize]

\* an environment variable that is not set / that is set to the string s
Unset == [ok |-> FALSE, val |-> EmptyStr]
SetTo(s) == [ok |-> TRUE, val |-> s]

\* os.LookupEnv(name): the string and whether the variable is set
LookupEnv(name) == environ[name]
\* os.Getenv(name): the empty string when the variable is not set
Getenv(name) == IF environ[name].ok THEN environ[name].val ELSE EmptyStr

\* s is a non-empty run of decimal digits
IsDigits(s) == s # <<>> /\ \A i \in 1..Len(s) : \E d \in 0..9 : s[i] = Digit(d)

RECURSIVE ParseDigits(_)
\* the number a run of decimal digits denotes
ParseDigits(s) ==
    IF s = <<>> THEN 0
    ELSE ParseDigits(SubSeq(s, 1, Len(s) - 1)) * 10
         + (CHOOSE d \in 0..9 : Digit(d) = s[Len(s)])

\* strconv.Atoi: an optional sign and decimal digits; anything else is an
\* error, with which Atoi returns 0
Atoi(s) ==
    LET signed == s # <<>> /\ s[1] \in {"+", "-"}
        digits == IF signed THEN Tail(s) ELSE s
    IN  IF IsDigits(digits)
        THEN [v |-> IF signed /\ s[1] = "-" THEN 0 - ParseDigits(digits)
                    ELSE ParseDigits(digits),
              ok |-> TRUE]
        ELSE [v |-> 0, ok |-> FALSE]

\* strconv.Itoa of a non-negative integer
Itoa(n) == FormatInt(n)

\* strconv.ParseBool: exactly these twelve strings are accepted
ParseBool(s) ==
    IF s \in {<<"1">>, <<"t">>, <<"T">>, <<"T", "R", "U", "E">>, <<"t", "r", "u", "e">>, <<"T", "r", "u", "e">>}
    THEN [v |-> TRUE, ok |-> TRUE]
    ELSE IF s \in {<<"0">>, <<"f">>, <<"F">>, <<"F", "A", "L", "S", "E">>, <<"f", "a", "l", "s", "e">>, <<"F", "a", "l", "s", "e">>}
    THEN [v |-> FALSE, ok |-> TRUE]
    ELSE [v |-> FALSE, ok |-> FALSE]

\* time.ParseDuration of one unsigned integer with one unit: "0" needs no
\* unit, every other number without a unit is an error ("missing unit in
\* duration"), as is the empty string and an unknown unit.  Milliseconds
\* cannot hold the units ns and us, fractions and sums such as "1h30m" are
\* not computed: the strings of Environs use none of them
ParseDuration(s) ==
    LET n == IF \E i \in 1..Len(s) : ~IsDigits(<<s[i]>>)
             THEN (CHOOSE i \in 1..Len(s) :
                      ~IsDigits(<<s[i]>>) /\ \A j \in 1..(i-1) : IsDigits(<<s[j]>>)) - 1
             ELSE Len(s)
        num == SubSeq(s, 1, n)
        unit == SubSeq(s, n + 1, Len(s))
    IN  IF s = <<"0">> THEN [v |-> 0, ok |-> TRUE]
        ELSE IF n = 0 THEN [v |-> 0, ok |-> FALSE]
        ELSE IF unit = <<"m", "s">> THEN [v |-> ParseDigits(num), ok |-> TRUE]
        ELSE IF unit = <<"s">> THEN [v |-> ParseDigits(num) * 1000, ok |-> TRUE]
        ELSE IF unit = <<"m">> THEN [v |-> ParseDigits(num) * 60000, ok |-> TRUE]
        ELSE IF unit = <<"h">> THEN [v |-> ParseDigits(num) * 3600000, ok |-> TRUE]
        ELSE [v |-> 0, ok |-> FALSE]

\* parseEnvInt, parseEnvBool, parseEnvDuration of the Redis BatchingAgent:
\* the parsed variable, or defaultVal when it is not set or does not parse
parseEnvInt(name, defaultVal) ==
    IF LookupEnv(name).ok /\ Atoi(LookupEnv(name).val).ok
    THEN Atoi(LookupEnv(name).val).v ELSE defaultVal

parseEnvBool(name, defaultVal) ==
    IF LookupEnv(name).ok /\ ParseBool(LookupEnv(name).val).ok
    THEN ParseBool(LookupEnv(name).val).v ELSE defaultVal

parseEnvDuration(name, defaultVal) ==
    IF LookupEnv(name).ok /\ ParseDuration(LookupEnv(name).val).ok
    THEN ParseDuration(LookupEnv(name).val).v ELSE defaultVal

\* getEnvOrDefault of the simple agent: the variable when it is set and
\* not empty
getEnvOrDefault(key, defaultValue) ==
    IF LookupEnv(key).ok /\ LookupEnv(key).val # EmptyStr
    THEN LookupEnv(key).val ELSE defaultValue

\* the Redis keys a command can name: request keys and what splitKeyValue
\* makes of a joined "key:value"
StoreKeys == ParamStrs \cup {splitKeyValue(Sprintf2(k, v))[1] : k, v \in ParamStrs}
\* the value of a key that does not exist
Missing == <<"(nil)">>

Requests == IF kind \in {"S3", "S3Forward"} THEN S3Requests ELSE RedisRequests

\* cap(pendingRequests)
Capacity == maxBatchSize * BufferFactor

\* NewS3Batcher / NewRedisBatcher followed by agent.Start(): the worker
\* runs only when batching is enabled
InitCommon ==
    /\ req = [r \in Ids |-> NoRequest]
    /\ hpc = [r \in Ids |-> "idle"]
    /\ late = [r \in Ids |-> FALSE]
    /\ pendingRequests = <<>>
    /\ closed = FALSE
    /\ wpc = IF enabled THEN "first" ELSE "none"
    /\ batch = <<>>
    /\ timer = "off"
    /\ ResultChan = [r \in Ids |-> <<>>]
    /\ ErrorChan = [r \in Ids |-> <<>>]
    /\ got = [r \in Ids |-> NoValue]
    /\ store = [k \in StoreKeys |-> IF k = sA THEN sA ELSE Missing]
    /\ clientClosed = FALSE
    /\ lastBatch = <<>>
    /\ callLog = <<>>
    /\ execErr = NoValue
    /\ direct = FALSE
    /\ lpc = "serving"
    /\ trips = 0
    /\ sendq = <<>>
    /\ closes = [r \in Ids |-> 0]
    /\ cpc = [r \in Ids |-> "none"]
    /\ left = [r \in Ids |-> BodyLen]
    /\ wrote = [r \in Ids |-> <<>>]
    /\ todo = <<>>
    /\ fi = 0
    /\ status = [r \in Ids |-> 0]
    /\ pingErr = FALSE
    /\ flagSet = Flags(DefaultPort, enabled, DefaultBatchWindow, maxBatchSize, FALSE)
    /\ environ = [n \in EnvNames |-> Unset]
    /\ config = Configuration(DefaultPort, enabled, DefaultBatchWindow, maxBatchSize, FALSE)

Init ==
    /\ kind \in {"S3", "Redis"}
    /\ enabled \in BOOLEAN
    /\ maxBatchSize = MaxBatchSize
    /\ InitCommon

(***************************************************************************)
(* Helpers on sequences.                                                   *)
(***************************************************************************)
Range(s) == {s[i] : i \in 1..Len(s)}

\* the orders in which a Go `for k := range m` may visit the key set S
Orders(S) == {o \in [1..Cardinality(S) -> S] : \A i, j \in 1..Cardinality(S) : o[i] = o[j] => i = j}

RECURSIVE Concat(_)
Concat(ss) == IF ss = <<>> THEN <<>> ELSE Head(ss) \o Concat(Tail(ss))

\* the values a sequence of sends leaves on the channel `ch` of request r
RECURSIVE Sent(_, _, _)
Sent(sends, r, ch) ==
    IF sends = <<>> THEN <<>>
    ELSE (IF Head(sends).to = r /\ Head(sends).ch = ch THEN <<Head(sends).v>> ELSE <<>>)
         \o Sent(Tail(sends), r, ch)

\* req.ResultChan <- v / req.ErrorChan <- v for every send, in order
Deliver(sends) ==
    /\ ResultChan' = [r \in Ids |-> ResultChan[r] \o Sent(sends, r, "result")]
    /\ ErrorChan' = [r \in Ids |-> ErrorChan[r] \o Sent(sends, r, "error")]

\* one backend operation, as recorded in callLog
Call(t, rq, members, out) ==
    [Type |-> t, BucketName |-> rq.BucketName, Key |-> rq.Key, Prefix |-> rq.Prefix,
     MaxKeys |-> rq.MaxKeys, Value |-> rq.Value, members |-> members, out |-> out]

(***************************************************************************)
(* S3Batcher (src/unnamed/part_011).                                       *)
(***************************************************************************)
S3Types == {TypeGetObject, TypeListObjects, TypeListBuckets}

\* the map key processBatch files a request under
S3GroupKey(rq) ==
    CASE rq.Type = TypeGetObject -> Sprintf2(rq.BucketName, rq.Key)
      [] rq.Type = TypeListObjects -> Sprintf3(rq.BucketName, rq.Prefix, rq.MaxKeys)
      [] OTHER -> EmptyStr

\* the response of the S3 client to one call: an output object or an error
S3Response(first, backendOk) ==
    IF backendOk THEN Result(<<"s3 output">>, 0, first) ELSE Error("s3 error", first)

\* mutant: one backend call per member instead of one per group
executeGroupedRequestsPerMember(requests, backendOk) ==
    IF requests = <<>> THEN [calls |-> <<>>, sends |-> <<>>]
    ELSE IF req[requests[1]].Type \in S3Types
         THEN [calls |-> [i \in 1..Len(requests) |->
                            Call(req[requests[i]].Type, req[requests[i]], <<requests[i]>>,
                                 S3Response(requests[i], backendOk))],
               sends |-> [i \in 1..Len(requests) |->
                            Send(requests[i], IF backendOk THEN "result" ELSE "error",
                                 S3Response(requests[i], backendOk))]]
         ELSE [calls |-> <<>>,
               sends |-> [i \in 1..Len(requests) |-> Send(requests[i], "error", ErrUnsupported)]]

\* mutant: the error is sent, and then the result as well
executeGroupedRequestsBoth(requests, backendOk) ==
    IF requests = <<>> THEN [calls |-> <<>>, sends |-> <<>>]
    ELSE LET first == requests[1]
             out == S3Response(first, backendOk)
         IN [calls |-> IF req[first].Type \in S3Types
                       THEN <<Call(req[first].Type, req[first], requests, out)>> ELSE <<>>,
             sends |-> [i \in 1..Len(requests) |-> Send(requests[i], "error", out)]
                       \o [i \in 1..Len(requests) |-> Send(requests[i], "result", out)]]

\* executeGroupedRequests: one call for requests[0], its outcome sent to
\* every request of the group; an unknown type gets the error without a call
executeGroupedRequests(requests, backendOk) ==
    IF requests = <<>> THEN [calls |-> <<>>, sends |-> <<>>]
    ELSE LET first == requests[1]
             out == S3Response(first, backendOk)
         IN IF req[first].Type \in S3Types
            THEN [calls |-> <<Call(req[first].Type, req[first], requests, out)>>,
                  sends |-> [i \in 1..Len(requests) |->
                               Send(requests[i], IF backendOk THEN "result" ELSE "error", out)]]
            ELSE [calls |-> <<>>,
                  sends |-> [i \in 1..Len(requests) |-> Send(requests[i], "error", ErrUnsupported)]]

\* the requests of b with type t filed under map key k, in batch order
S3Group(b, t, k) ==
    LET In(r) == req[r].Type = t /\ S3GroupKey(req[r]) = k
    IN  SelectSeq(b, In)

\* the key set of the map processBatch builds for type t
S3Keys(b, t) == {S3GroupKey(req[r]) : r \in {x \in Range(b) : req[x].Type = t}}

\* mutant: requests of unknown type are skipped by the grouping switch
S3UnknownSkipped(b) == <<>>

\* the requests of unknown type, in batch order
S3Unknown(b) ==
    LET In(r) == req[r].Type \notin S3Types
    IN  SelectSeq(b, In)

\* processBatch: group, then execute the GetObject groups, the ListObjects
\* groups and the ListBuckets group; og, ol are the map iteration orders and
\* okOf says which calls the backend answers without error
S3processBatch(b, og, ol, okOf) ==
    LET unknown == S3Unknown(b)
        groups == [i \in 1..Len(og) |-> S3Group(b, TypeGetObject, og[i])]
                  \o [i \in 1..Len(ol) |-> S3Group(b, TypeListObjects, ol[i])]
                  \o (IF S3Group(b, TypeListBuckets, EmptyStr) # <<>>
                      THEN <<S3Group(b, TypeListBuckets, EmptyStr)>> ELSE <<>>)
        ran == [i \in 1..Len(groups) |-> executeGroupedRequests(groups[i], okOf[i])]
        early == [i \in 1..Len(unknown) |-> executeGroupedRequests(<<unknown[i]>>, TRUE)]
    IN [calls |-> Concat([i \in 1..Len(ran) |-> ran[i].calls]),
        sends |-> Concat([i \in 1..Len(early) |-> early[i].sends])
                  \o Concat([i \in 1..Len(ran) |-> ran[i].sends])]

(***************************************************************************)
(* RedisBatcher (src/openwhisk/s3/batching-agent/Dockerfile, lines 156-539)*)
(***************************************************************************)
RedisTypes == {TypeGet, TypeSet, TypeDel, TypeExists}
sOK == <<"O", "K">>

\* the map key processBatch files a request under
RedisGroupKey(rq) ==
    IF rq.Type = TypeSet THEN Sprintf2(rq.Key, rq.Value) ELSE rq.Key

\* the requests of b with type t filed under map key k, in batch order
RedisGroup(b, t, k) ==
    LET In(r) == req[r].Type = t /\ RedisGroupKey(req[r]) = k
    IN  SelectSeq(b, In)

\* the key set of the map processBatch builds for type t
RedisKeys(b, t) == {RedisGroupKey(req[r]) : r \in {x \in Range(b) : req[x].Type = t}}

\* the requests of unknown type, in batch order
RedisUnknown(b) ==
    LET In(r) == req[r].Type \notin RedisTypes
    IN  SelectSeq(b, In)

\* a command queued on the pipeline, with the requests waiting for it
Cmd(t, key, value, members) == [Type |-> t, Key |-> key, Value |-> value, members |-> members]

\* pipe.Get / pipe.Set / pipe.Del / pipe.Exists for the groups of one type,
\* visited in map order o; a Set is sent with the two parts of its map key
Cmds(b, t, o) ==
    [i \in 1..Len(o) |->
        IF t = TypeSet
        THEN Cmd(t, splitKeyValue(o[i])[1], splitKeyValue(o[i])[2], RedisGroup(b, t, o[i]))
        ELSE Cmd(t, o[i], EmptyStr, RedisGroup(b, t, o[i]))]

\* the reply of the server to one command against keyspace st
Reply(c, st, srvOk) ==
    LET rep == c.members[1]
    IN  IF ~srvOk THEN Error("server error", rep)
        ELSE CASE c.Type = TypeGet ->
                    IF st[c.Key] = Missing THEN RedisNil ELSE Result(st[c.Key], 0, rep)
               [] c.Type = TypeSet -> Result(sOK, 0, rep)
               [] c.Type = TypeDel -> Result(EmptyStr, IF st[c.Key] = Missing THEN 0 ELSE 1, rep)
               [] c.Type = TypeExists -> Result(EmptyStr, IF st[c.Key] = Missing THEN 0 ELSE 1, rep)

\* the keyspace after one command
Effect(c, st, srvOk) ==
    IF ~srvOk THEN st
    ELSE CASE c.Type = TypeSet -> [st EXCEPT ![c.Key] = c.Value]
           [] c.Type = TypeDel -> [st EXCEPT ![c.Key] = Missing]
           [] OTHER -> st

\* the server runs the commands of a pipeline in the order they were queued
RECURSIVE RunCmds(_, _, _, _)
RunCmds(cmds, i, st, srvOk) ==
    IF i > Len(cmds) THEN [store |-> st, outs |-> <<>>]
    ELSE LET rest == RunCmds(cmds, i + 1, Effect(cmds[i], st, srvOk[i]), srvOk)
         IN  [store |-> rest.store,
              outs |-> <<Reply(cmds[i], st, srvOk[i])>> \o rest.outs]

\* the first error among the replies, nil (NoValue) when there is none
FirstErr(outs) ==
    IF \E i \in 1..Len(outs) : ~outs[i].ok
    THEN outs[CHOOSE i \in 1..Len(outs) : ~outs[i].ok /\ \A j \in 1..(i-1) : outs[j].ok]
    ELSE NoValue

\* pipe.Exec of go-redis: nothing queued gives (nil, nil) without a round
\* trip, as does a closed client with its error; a connection
\* failure gives that error to every command; otherwise every command has its
\* own reply and Exec returns the error of the first failed command, where a
\* GET of a missing key counts as failed with redis.Nil
Exec(cmds, st, transportOk, srvOk) ==
    IF cmds = <<>> THEN [store |-> st, outs |-> <<>>, err |-> NoValue, trips |-> 0]
    ELSE IF clientClosed
         THEN [store |-> st, outs |-> [i \in 1..Len(cmds) |-> ErrClosed], err |-> ErrClosed,
               trips |-> 0]
    ELSE IF ~transportOk
         THEN [store |-> st, outs |-> [i \in 1..Len(cmds) |-> ErrTransport], err |-> ErrTransport,
               trips |-> 1]
    ELSE LET run == RunCmds(cmds, 1, st, srvOk)
         IN  [store |-> run.store, outs |-> run.outs, err |-> FirstErr(run.outs), trips |-> 1]

\* the sends of one result list after a pipeline without error:
\* val, err := result.Cmd.Result(), then one send per request of the group
ResultSends(c, out) ==
    [i \in 1..Len(c.members) |-> Send(c.members[i], IF out.ok THEN "result" ELSE "error", out)]

\* mutant: an error of Exec reaches the requests of the first command only,
\* the requests of the other commands are sent their command's own reply
RedisprocessBatchErrToFirst(b, og, os, od, oe, transportOk, srvOk) ==
    LET unknown == RedisUnknown(b)
        cmds == Cmds(b, TypeGet, og) \o Cmds(b, TypeSet, os)
                \o Cmds(b, TypeDel, od) \o Cmds(b, TypeExists, oe)
        ex == Exec(cmds, store, transportOk, srvOk)
    IN [calls |-> [i \in 1..Len(cmds) |->
                     Call(cmds[i].Type,
                          BatchRequest(cmds[i].Type, EmptyStr, cmds[i].Key, EmptyStr, 0, cmds[i].Value),
                          cmds[i].members, ex.outs[i])],
        sends |-> [i \in 1..Len(unknown) |-> Send(unknown[i], "error", ErrUnsupported)]
                  \o Concat([i \in 1..Len(cmds) |->
                               IF i = 1 /\ ex.err # NoValue
                               THEN [j \in 1..Len(cmds[i].members) |->
                                       Send(cmds[i].members[j], "error", ex.err)]
                               ELSE [j \in 1..Len(cmds[i].members) |->
                                       Send(cmds[i].members[j], "result",
                                            Result(sOK, 0, cmds[i].members[1]))]]),
        store |-> ex.store,
        err |-> ex.err,
        trips |-> ex.trips]

\* mutant: the SET commands are queued before the GET commands
RedisprocessBatchSetFirst(b, og, os, od, oe, transportOk, srvOk) ==
    LET unknown == RedisUnknown(b)
        cmds == Cmds(b, TypeSet, os) \o Cmds(b, TypeGet, og)
                \o Cmds(b, TypeDel, od) \o Cmds(b, TypeExists, oe)
        ex == Exec(cmds, store, transportOk, srvOk)
    IN [calls |-> [i \in 1..Len(cmds) |->
                     Call(cmds[i].Type,
                          BatchRequest(cmds[i].Type, EmptyStr, cmds[i].Key, EmptyStr, 0, cmds[i].Value),
                          cmds[i].members, ex.outs[i])],
        sends |-> [i \in 1..Len(unknown) |-> Send(unknown[i], "error", ErrUnsupported)]
                  \o (IF ex.err # NoValue
                      THEN Concat([i \in 1..Len(cmds) |->
                                     [j \in 1..Len(cmds[i].members) |->
                                        Send(cmds[i].members[j], "error", ex.err)]])
                      ELSE Concat([i \in 1..Len(cmds) |-> ResultSends(cmds[i], ex.outs[i])])),
        store |-> ex.store,
        err |-> ex.err,
        trips |-> ex.trips]

\* processBatch: group; queue one command per group in the type order GET,
\* SET, DEL, EXISTS (og, os, od, oe are the map iteration orders); Exec; on
\* an error of Exec send it to every grouped request, otherwise send each
\* group the result of its command
RedisprocessBatch(b, og, os, od, oe, transportOk, srvOk) ==
    LET unknown == RedisUnknown(b)
        cmds == Cmds(b, TypeGet, og) \o Cmds(b, TypeSet, os)
                \o Cmds(b, TypeDel, od) \o Cmds(b, TypeExists, oe)
        ex == Exec(cmds, store, transportOk, srvOk)
    IN [calls |-> [i \in 1..Len(cmds) |->
                     Call(cmds[i].Type,
                          BatchRequest(cmds[i].Type, EmptyStr, cmds[i].Key, EmptyStr, 0, cmds[i].Value),
                          cmds[i].members, ex.outs[i])],
        sends |-> [i \in 1..Len(unknown) |-> Send(unknown[i], "error", ErrUnsupported)]
                  \o (IF ex.err # NoValue
                      THEN Concat([i \in 1..Len(cmds) |->
                                     [j \in 1..Len(cmds[i].members) |->
                                        Send(cmds[i].members[j], "error", ex.err)]])
                      ELSE Concat([i \in 1..Len(cmds) |-> ResultSends(cmds[i], ex.outs[i])])),
        store |-> ex.store,
        err |-> ex.err,
        trips |-> ex.trips]

\* executeRequest: one command on the client, its value to ResultChan or its
\* error (redis.Nil included) to ErrorChan; an unknown type gets the error
executeRequest(r, transportOk, srvOk) ==
    IF req[r].Type \notin RedisTypes
    THEN [calls |-> <<>>, sends |-> <<Send(r, "error", ErrUnsupported)>>,
          store |-> store, err |-> NoValue]
    ELSE LET c == Cmd(req[r].Type, req[r].Key, req[r].Value, <<r>>)
             ex == Exec(<<c>>, store, transportOk, <<srvOk>>)
         IN [calls |-> <<Call(c.Type, req[r], <<r>>, ex.outs[1])>>,
             sends |-> ResultSends(c, ex.outs[1]),
             store |-> ex.store,
             err |-> ex.err]

(***************************************************************************)
(* HTTP front: one handler per request.                                    *)
(***************************************************************************)
\* the process runs and its listener accepts connections
Accepting == lpc \in {"serving", "wgWait", "batcherDown"}
\* the process is alive: main has not returned and no goroutine has panicked
Running == lpc \notin {"parsing", "starting", "fatal", "exited", "crashed"}
\* batcher.Shutdown() has been called
ShutdownBegun == lpc \notin {"parsing", "starting", "serving"}

\* handleGetObject, handleGet, ...: a connection is accepted, the handler
\* reads the parameters and builds the BatchRequest rq with two fresh
\* channels of capacity one; handlers are numbered in order of arrival
Arrive(r, rq) ==
    /\ Accepting
    /\ hpc[r] = "idle"
    /\ r > 1 => hpc[r - 1] # "idle"
    /\ req' = [req EXCEPT ![r] = rq]

\* Submit, batching enabled: b.pendingRequests <- request; the send waits
\* while the channel is full
Submit(r) ==
    /\ \E rq \in Requests : Arrive(r, rq)
    /\ enabled
    /\ ~closed
    /\ Len(pendingRequests) < Capacity
    /\ pendingRequests' = Append(pendingRequests, r)
    /\ hpc' = [hpc EXCEPT ![r] = "waiting"]
    /\ late' = [late EXCEPT ![r] = ShutdownBegun]
    /\ UNCHANGED <<kind, enabled, closed, wpc, batch, timer, ResultChan,
                   ErrorChan, got, store, clientClosed, lastBatch, callLog,
                   execErr, direct, lpc,
                   trips,
                   maxBatchSize,
                   sendq,
                   closes,
                   cpc,
                   left,
                   wrote,
                   todo,
                   fi,
                   status,
                   pingErr,
                   flagSet,
                   environ,
                   config>>

\* Submit, batching enabled, after close(b.pendingRequests): the send panics;
\* net/http recovers the panic and drops the connection, nothing is delivered
SubmitClosed(r) ==
    /\ \E rq \in Requests : Arrive(r, rq)
    /\ enabled
    /\ closed
    /\ hpc' = [hpc EXCEPT ![r] = "panicked"]
    /\ late' = [late EXCEPT ![r] = ShutdownBegun]
    /\ UNCHANGED <<kind, enabled, pendingRequests, closed, wpc, batch, timer,
                   ResultChan, ErrorChan, got, store, clientClosed, lastBatch,
                   callLog, execErr, direct, lpc,
                   trips,
                   maxBatchSize,
                   sendq,
                   closes,
                   cpc,
                   left,
                   wrote,
                   todo,
                   fi,
                   status,
                   pingErr,
                   flagSet,
                   environ,
                   config>>

\* Submit, batching enabled, the channel is full (or has no buffer): the
\* handler blocks in b.pendingRequests <- request
SubmitBlock(r) ==
    /\ \E rq \in Requests : Arrive(r, rq)
    /\ enabled
    /\ ~closed
    /\ Len(pendingRequests) >= Capacity
    /\ sendq' = Append(sendq, r)
    /\ hpc' = [hpc EXCEPT ![r] = "sending"]
    /\ late' = [late EXCEPT ![r] = ShutdownBegun]
    /\ UNCHANGED <<kind, enabled, pendingRequests, closed, wpc, batch, timer,
                   ResultChan, ErrorChan, got, store, clientClosed, lastBatch,
                   callLog, execErr, direct, lpc, trips, maxBatchSize,
                   closes,
                   cpc,
                   left,
                   wrote,
                   todo,
                   fi,
                   status,
                   pingErr,
                   flagSet,
                   environ,
                   config>>

\* the handler of a disabled batcher has built its request and its two
\* channels and is about to call Submit
HandlerBuild(r) ==
    /\ \E rq \in Requests : Arrive(r, rq)
    /\ ~enabled
    /\ hpc' = [hpc EXCEPT ![r] = "built"]
    /\ UNCHANGED <<kind, enabled, late, pendingRequests, closed, wpc, batch,
                   timer, ResultChan, ErrorChan, got, store, clientClosed,
                   lastBatch, callLog, execErr, direct, lpc, trips,
                   maxBatchSize, sendq,
                   closes,
                   cpc,
                   left,
                   wrote,
                   todo,
                   fi,
                   status,
                   pingErr,
                   flagSet,
                   environ,
                   config>>

\* Submit of S3Batcher, batching disabled:
\* b.executeGroupedRequests(ctx, []*BatchRequest{request})
SubmitDirectS3(r) ==
    /\ Running
    /\ hpc[r] = "built"
    /\ ~enabled
    /\ kind = "S3"
    /\ \E backendOk \in BOOLEAN :
         LET run == executeGroupedRequests(<<r>>, backendOk)
         IN  /\ Deliver(run.sends)
             /\ callLog' = run.calls
    /\ lastBatch' = <<r>>
    /\ execErr' = NoValue
    /\ direct' = TRUE
    /\ hpc' = [hpc EXCEPT ![r] = "waiting"]
    /\ late' = [late EXCEPT ![r] = ShutdownBegun]
    /\ trips' = 0
    /\ UNCHANGED <<kind, enabled, req, pendingRequests, closed, wpc, batch,
                   timer, got, store, clientClosed, lpc,
                   maxBatchSize,
                   sendq,
                   closes,
                   cpc,
                   left,
                   wrote,
                   todo,
                   fi,
                   status,
                   pingErr,
                   flagSet,
                   environ,
                   config>>

\* mutant: Submit that sends to pendingRequests whatever b.enabled says
SubmitDirectRedisQueued(r) ==
    /\ Running
    /\ hpc[r] = "built"
    /\ ~enabled
    /\ kind = "Redis"
    /\ Len(pendingRequests) < Capacity
    /\ pendingRequests' = Append(pendingRequests, r)
    /\ hpc' = [hpc EXCEPT ![r] = "waiting"]
    /\ late' = [late EXCEPT ![r] = ShutdownBegun]
    /\ UNCHANGED <<kind, enabled, closed, wpc, batch, timer, ResultChan,
                   ErrorChan, got, store, clientClosed, lastBatch, callLog,
                   execErr, direct, lpc, trips, maxBatchSize, sendq, req,
                   closes,
                   cpc,
                   left,
                   wrote,
                   todo,
                   fi,
                   status,
                   pingErr,
                   flagSet,
                   environ,
                   config>>

\* Submit of RedisBatcher, batching disabled: b.executeRequest(ctx, request)
SubmitDirectRedis(r) ==
    /\ Running
    /\ hpc[r] = "built"
    /\ ~enabled
    /\ kind = "Redis"
    /\ \E transportOk \in BOOLEAN, srvOk \in BOOLEAN :
         LET run == executeRequest(r, transportOk, srvOk)
         IN  /\ Deliver(run.sends)
             /\ callLog' = run.calls
             /\ store' = run.store
             /\ execErr' = run.err
    /\ lastBatch' = <<r>>
    /\ direct' = TRUE
    /\ hpc' = [hpc EXCEPT ![r] = "waiting"]
    /\ late' = [late EXCEPT ![r] = ShutdownBegun]
    /\ trips' = 0
    /\ UNCHANGED <<kind, enabled, req, pendingRequests, closed, wpc, batch,
                   timer, got, clientClosed, lpc,
                   maxBatchSize,
                   sendq,
                   closes,
                   cpc,
                   left,
                   wrote,
                   todo,
                   fi,
                   status,
                   pingErr,
                   flagSet,
                   environ,
                   config>>

\* the handler's select on resultChan / errorChan
HandlerReceive(r) ==
    /\ Running
    /\ hpc[r] = "waiting"
    /\ \/ /\ ResultChan[r] # <<>>
          /\ got' = [got EXCEPT ![r] = Head(ResultChan[r])]
          /\ ResultChan' = [ResultChan EXCEPT ![r] = Tail(ResultChan[r])]
          /\ UNCHANGED ErrorChan
       \/ /\ ErrorChan[r] # <<>>
          /\ got' = [got EXCEPT ![r] = Head(ErrorChan[r])]
          /\ ErrorChan' = [ErrorChan EXCEPT ![r] = Tail(ErrorChan[r])]
          /\ UNCHANGED ResultChan
    /\ hpc' = [hpc EXCEPT ![r] = "done"]
    \* the response: the value with 200, or http.Error(w, ..., 500)
    /\ status' = [status EXCEPT ![r] = IF got'[r].ok THEN StatusOK
                                       ELSE StatusInternalServerError]
    \* handleGetObject goes on to io.Copy(w, resp.Body)
    /\ cpc' = IF kind \in {"S3", "S3Forward"} /\ req[r].Type = TypeGetObject /\ got'[r].ok
              THEN [cpc EXCEPT ![r] = "copying"]
              ELSE cpc
    /\ UNCHANGED <<kind, enabled, req, late, pendingRequests, closed, wpc, batch,
                   timer, store, clientClosed, lastBatch, callLog, execErr, direct, lpc,
                   trips, maxBatchSize, sendq, closes, left, wrote,
                   todo,
                   fi,
                   pingErr,
                   flagSet,
                   environ,
                   config>>

\* io.Copy(w, resp.Body): one Read of the shared Body and the Write of what
\* it returned; the Reads of an HTTP body are serialized by its mutex
HandlerCopy(r) ==
    /\ Running
    /\ cpc[r] = "copying"
    /\ left[got[r].rep] > 0
    /\ closes[got[r].rep] = 0
    /\ wrote' = [wrote EXCEPT ![r] = Append(@, BodyLen - left[got[r].rep] + 1)]
    /\ left' = [left EXCEPT ![got[r].rep] = @ - 1]
    /\ UNCHANGED <<kind, enabled, req, hpc, late, pendingRequests, closed, wpc,
                   batch, timer, ResultChan, ErrorChan, got, store, clientClosed,
                   lastBatch, callLog, execErr, direct, lpc, trips,
                   maxBatchSize, sendq, closes, cpc,
                   todo,
                   fi,
                   status,
                   pingErr,
                   flagSet,
                   environ,
                   config>>

\* io.Copy returns, at the end of the Body or on the error of a Read from a
\* Body that was closed already, and the handler calls resp.Body.Close()
HandlerClose(r) ==
    /\ Running
    /\ cpc[r] = "copying"
    /\ left[got[r].rep] = 0 \/ closes[got[r].rep] > 0
    /\ closes' = [closes EXCEPT ![got[r].rep] = @ + 1]
    /\ cpc' = [cpc EXCEPT ![r] = "closed"]
    /\ UNCHANGED <<kind, enabled, req, hpc, late, pendingRequests, closed, wpc,
                   batch, timer, ResultChan, ErrorChan, got, store, clientClosed,
                   lastBatch, callLog, execErr, direct, lpc, trips,
                   maxBatchSize, sendq, left, wrote,
                   todo,
                   fi,
                   status,
                   pingErr,
                   flagSet,
                   environ,
                   config>>

(***************************************************************************)
(* processRequestsLoop: the single worker goroutine (identical in          *)
(* S3Batcher and RedisBatcher).                                            *)
(***************************************************************************)
\* a receive on pendingRequests finds a value: a buffered one, or (buffer
\* empty, which with blocked senders means capacity zero) the value a
\* blocked sender offers
CanReceive == pendingRequests # <<>> \/ sendq # <<>>
Received == IF pendingRequests # <<>> THEN Head(pendingRequests) ELSE Head(sendq)

\* mutant: the receive leaves the request in the channel, as if a second
\* consumer read the same queue
AfterReceiveKept ==
    /\ UNCHANGED <<pendingRequests, sendq, hpc>>

\* the channel after that receive: the first blocked sender, if any,
\* completes its send and its handler goes on to wait for the outcome
AfterReceive ==
    /\ pendingRequests' = IF pendingRequests = <<>> THEN <<>>
                          ELSE Tail(pendingRequests)
                               \o (IF sendq # <<>> THEN <<Head(sendq)>> ELSE <<>>)
    /\ sendq' = IF sendq # <<>> THEN Tail(sendq) ELSE sendq
    /\ hpc' = IF sendq # <<>> THEN [hpc EXCEPT ![Head(sendq)] = "waiting"] ELSE hpc

\* request, ok := <-b.pendingRequests with a value: it opens a new batch and
\* the window timer is started
WorkerFirst ==
    /\ Running
    /\ wpc = "first"
    /\ CanReceive
    /\ batch' = <<Received>>
    /\ AfterReceive
    /\ timer' = "armed"
    /\ wpc' = "collect"
    /\ UNCHANGED <<kind, enabled, req, late, closed, ResultChan, ErrorChan,
                   got, store, clientClosed, lastBatch, callLog, execErr, direct, lpc,
                   trips, maxBatchSize,
                   closes,
                   cpc,
                   left,
                   wrote,
                   todo,
                   fi,
                   status,
                   pingErr,
                   flagSet,
                   environ,
                   config>>

\* request, ok := <-b.pendingRequests with !ok: closed and drained, return
WorkerExit ==
    /\ Running
    /\ wpc = "first"
    /\ pendingRequests = <<>>
    /\ closed
    /\ wpc' = "exited"
    /\ UNCHANGED <<kind, enabled, req, hpc, late, pendingRequests, closed, batch,
                   timer, ResultChan, ErrorChan, got, store, clientClosed,
                   lastBatch, callLog, execErr, direct, lpc,
                   trips,
                   maxBatchSize,
                   sendq,
                   closes,
                   cpc,
                   left,
                   wrote,
                   todo,
                   fi,
                   status,
                   pingErr,
                   flagSet,
                   environ,
                   config>>

\* the batch window elapses: the runtime puts the time on timer.C
TimerFire ==
    /\ Running
    /\ timer = "armed"
    /\ timer' = "fired"
    /\ UNCHANGED <<kind, enabled, req, hpc, late, pendingRequests, closed, wpc,
                   batch, ResultChan, ErrorChan, got, store, clientClosed,
                   lastBatch, callLog, execErr, direct, lpc,
                   trips,
                   maxBatchSize,
                   sendq,
                   closes,
                   cpc,
                   left,
                   wrote,
                   todo,
                   fi,
                   status,
                   pingErr,
                   flagSet,
                   environ,
                   config>>

\* mutant: the collect loop without its bound len(batch) < maxBatchSize
WorkerCollectNoCap ==
    /\ Running
    /\ wpc = "collect"
    /\ CanReceive
    /\ batch' = Append(batch, Received)
    /\ AfterReceive
    /\ UNCHANGED <<kind, enabled, req, late, closed, wpc, timer, ResultChan,
                   ErrorChan, got, store, clientClosed, lastBatch, callLog,
                   execErr, direct, lpc, trips, maxBatchSize,
                   closes,
                   cpc,
                   left,
                   wrote,
                   todo,
                   fi,
                   status,
                   pingErr,
                   flagSet,
                   environ,
                   config>>

\* collectLoop, case request, ok := <-b.pendingRequests with a value
WorkerCollect ==
    /\ Running
    /\ wpc = "collect"
    /\ Len(batch) < maxBatchSize
    /\ CanReceive
    /\ batch' = Append(batch, Received)
    /\ AfterReceive
    /\ UNCHANGED <<kind, enabled, req, late, closed, wpc, timer, ResultChan,
                   ErrorChan, got, store, clientClosed, lastBatch, callLog,
                   execErr, direct, lpc, trips, maxBatchSize,
                   closes,
                   cpc,
                   left,
                   wrote,
                   todo,
                   fi,
                   status,
                   pingErr,
                   flagSet,
                   environ,
                   config>>

\* collectLoop, case request, ok := <-b.pendingRequests with !ok
WorkerChanClosed ==
    /\ Running
    /\ wpc = "collect"
    /\ Len(batch) < maxBatchSize
    /\ pendingRequests = <<>>
    /\ closed
    /\ wpc' = "process"
    /\ UNCHANGED <<kind, enabled, req, hpc, late, pendingRequests, closed, batch,
                   timer, ResultChan, ErrorChan, got, store, clientClosed,
                   lastBatch, callLog, execErr, direct, lpc,
                   trips,
                   maxBatchSize,
                   sendq,
                   closes,
                   cpc,
                   left,
                   wrote,
                   todo,
                   fi,
                   status,
                   pingErr,
                   flagSet,
                   environ,
                   config>>

\* collectLoop, case <-timer.C
WorkerWindow ==
    /\ Running
    /\ wpc = "collect"
    /\ Len(batch) < maxBatchSize
    /\ timer = "fired"
    /\ timer' = "off"
    /\ wpc' = "process"
    /\ UNCHANGED <<kind, enabled, req, hpc, late, pendingRequests, closed, batch,
                   ResultChan, ErrorChan, got, store, clientClosed, lastBatch,
                   callLog, execErr, direct, lpc,
                   trips,
                   maxBatchSize,
                   sendq,
                   closes,
                   cpc,
                   left,
                   wrote,
                   todo,
                   fi,
                   status,
                   pingErr,
                   flagSet,
                   environ,
                   config>>

\* mutant: collectLoop is left by a break only
CollectedByBreak == wpc = "process"

\* the worker has left collectLoop: by a break, or because the batch is full
Collected == wpc = "process" \/ (wpc = "collect" /\ Len(batch) >= maxBatchSize)

\* mutant: the grouping maps outlive processBatch, so the requests of the
\* previous batch are still filed in them when the next batch is grouped
WorkerProcessS3Carry ==
    /\ Running
    /\ kind = "S3"
    /\ Collected
    /\ \E og \in Orders(S3Keys(lastBatch \o batch, TypeGetObject)),
          ol \in Orders(S3Keys(lastBatch \o batch, TypeListObjects)),
          okOf \in [1..Len(lastBatch \o batch) -> BOOLEAN] :
         LET run == S3processBatch(lastBatch \o batch, og, ol, okOf)
         IN  /\ Deliver(run.sends)
             /\ callLog' = run.calls
    /\ lastBatch' = batch
    /\ execErr' = NoValue
    /\ direct' = FALSE
    /\ batch' = <<>>
    /\ timer' = "off"
    /\ wpc' = "first"
    /\ trips' = 0
    /\ UNCHANGED <<kind, enabled, req, hpc, late, pendingRequests, closed, got,
                   store, clientClosed, lpc,
                   maxBatchSize,
                   sendq,
                   closes,
                   cpc,
                   left,
                   wrote,
                   todo,
                   fi,
                   status,
                   pingErr,
                   flagSet,
                   environ,
                   config>>

\* S3Batcher: timer.Stop(), drain, b.processBatch(batch), next iteration
WorkerProcessS3 ==
    /\ Running
    /\ kind = "S3"
    /\ Collected
    /\ \E og \in Orders(S3Keys(batch, TypeGetObject)),
          ol \in Orders(S3Keys(batch, TypeListObjects)),
          okOf \in [1..Len(batch) -> BOOLEAN] :
         LET run == S3processBatch(batch, og, ol, okOf)
         IN  /\ Deliver(run.sends)
             /\ callLog' = run.calls
    /\ lastBatch' = batch
    /\ execErr' = NoValue
    /\ direct' = FALSE
    /\ batch' = <<>>
    /\ timer' = "off"
    /\ wpc' = "first"
    /\ trips' = 0
    /\ UNCHANGED <<kind, enabled, req, hpc, late, pendingRequests, closed, got,
                   store, clientClosed, lpc,
                   maxBatchSize,
                   sendq,
                   closes,
                   cpc,
                   left,
                   wrote,
                   todo,
                   fi,
                   status,
                   pingErr,
                   flagSet,
                   environ,
                   config>>

\* RedisBatcher: timer.Stop(), drain, b.processBatch(batch), next iteration
WorkerProcessRedis ==
    /\ Running
    /\ kind = "Redis"
    /\ Collected
    /\ \E og \in Orders(RedisKeys(batch, TypeGet)),
          os \in Orders(RedisKeys(batch, TypeSet)),
          od \in Orders(RedisKeys(batch, TypeDel)),
          oe \in Orders(RedisKeys(batch, TypeExists)),
          transportOk \in BOOLEAN,
          srvOk \in [1..Len(batch) -> BOOLEAN] :
         LET run == RedisprocessBatch(batch, og, os, od, oe, transportOk, srvOk)
         IN  /\ Deliver(run.sends)
             /\ callLog' = run.calls
             /\ store' = run.store
             /\ execErr' = run.err
             /\ trips' = run.trips
    /\ lastBatch' = batch
    /\ direct' = FALSE
    /\ batch' = <<>>
    /\ timer' = "off"
    /\ wpc' = "first"
    /\ UNCHANGED <<kind, enabled, req, hpc, late, pendingRequests, closed, got,
                   clientClosed, lpc,
                   maxBatchSize,
                   sendq,
                   closes,
                   cpc,
                   left,
                   wrote,
                   todo,
                   fi,
                   status,
                   pingErr,
                   flagSet,
                   environ,
                   config>>

(***************************************************************************)
(* Lifecycle: main and BatchingAgent.Shutdown of the S3 and Redis agents.  *)
(***************************************************************************)
\* <-sigChan; agent.Shutdown(ctx) starts with a.batcher.Shutdown(), which
\* closes pendingRequests when batching is enabled; a send blocked on the
\* channel panics at the close
AgentShutdown ==
    /\ lpc = "serving"
    /\ closed' = enabled
    /\ lpc' = "wgWait"
    /\ sendq' = <<>>
    /\ hpc' = [r \in Ids |-> IF r \in Range(sendq) THEN "panicked" ELSE hpc[r]]
    /\ UNCHANGED <<kind, enabled, req, late, pendingRequests, wpc, batch,
                   timer, ResultChan, ErrorChan, got, store, clientClosed,
                   lastBatch, callLog, execErr, direct, trips, maxBatchSize,
                   closes,
                   cpc,
                   left,
                   wrote,
                   todo,
                   fi,
                   status,
                   pingErr,
                   flagSet,
                   environ,
                   config>>

\* b.wg.Wait() returns once the worker has returned; RedisBatcher then
\* closes its client; batcher.Shutdown() returns
ShutdownWait ==
    /\ lpc = "wgWait"
    /\ enabled => wpc = "exited"
    /\ clientClosed' = (kind = "Redis")
    /\ lpc' = "batcherDown"
    /\ UNCHANGED <<kind, enabled, req, hpc, late, pendingRequests, closed, wpc,
                   batch, timer, ResultChan, ErrorChan, got, store, lastBatch,
                   callLog, execErr, direct,
                   trips,
                   maxBatchSize,
                   sendq,
                   closes,
                   cpc,
                   left,
                   wrote,
                   todo,
                   fi,
                   status,
                   pingErr,
                   flagSet,
                   environ,
                   config>>

\* a.server.Shutdown(ctx): the listeners are closed
ServerShutdown ==
    /\ lpc = "batcherDown"
    /\ lpc' = "serverClosing"
    /\ UNCHANGED <<kind, enabled, req, hpc, late, pendingRequests, closed, wpc,
                   batch, timer, ResultChan, ErrorChan, got, store, clientClosed,
                   lastBatch, callLog, execErr, direct,
                   trips,
                   maxBatchSize,
                   sendq,
                   closes,
                   cpc,
                   left,
                   wrote,
                   todo,
                   fi,
                   status,
                   pingErr,
                   flagSet,
                   environ,
                   config>>

\* server.Shutdown returns when no handler is in flight or when the 10 s
\* context expires; main returns and the process exits
ServerShutdownDone ==
    /\ lpc = "serverClosing"
    /\ lpc' = "exited"
    /\ UNCHANGED <<kind, enabled, req, hpc, late, pendingRequests, closed, wpc,
                   batch, timer, ResultChan, ErrorChan, got, store, clientClosed,
                   lastBatch, callLog, execErr, direct,
                   trips,
                   maxBatchSize,
                   sendq,
                   closes,
                   cpc,
                   left,
                   wrote,
                   todo,
                   fi,
                   status,
                   pingErr,
                   flagSet,
                   environ,
                   config>>

Next ==
    \/ \E r \in Ids : Submit(r)
    \/ \E r \in Ids : SubmitClosed(r)
    \/ \E r \in Ids : HandlerBuild(r)
    \/ \E r \in Ids : SubmitDirectS3(r)
    \/ \E r \in Ids : SubmitDirectRedis(r)
    \/ \E r \in Ids : HandlerReceive(r)
    \/ \E r \in Ids : HandlerCopy(r)
    \/ \E r \in Ids : HandlerClose(r)
    \/ WorkerFirst
    \/ WorkerExit
    \/ TimerFire
    \/ WorkerCollect
    \/ WorkerChanClosed
    \/ WorkerWindow
    \/ WorkerProcessS3
    \/ WorkerProcessRedis
    \/ AgentShutdown
    \/ ShutdownWait
    \/ ServerShutdown
    \/ ServerShutdownDone

Spec == Init /\ [][Next]_vars

(***************************************************************************)
(* The routes of the BatchingAgent front that end before Submit: parameter *)
(* validation and /health                                                  *)
(* (src/openwhisk/s3/batching-agent/cmd/agent/main.go, part_003 1-449).    *)
(***************************************************************************)
\* setupRoutes: the API routes of the agent this process runs
Routes ==
    IF kind = "S3" THEN {"/s3/listBuckets", "/s3/listObjects", "/s3/getObject"}
    ELSE {"/redis/get", "/redis/set", "/redis/del", "/redis/exists"}

\* the values of a query parameter: r.URL.Query().Get gives the empty
\* string for a parameter that is missing or empty
QueryValues == {EmptyStr, sA}

\* the check a handler makes before it builds its BatchRequest: FALSE when
\* it answers 400 and returns
ParamsOk(route, key, value) ==
    CASE route \in {"/s3/getObject", "/redis/get", "/redis/del", "/redis/exists"} ->
           key # EmptyStr
      [] route = "/redis/set" -> key # EmptyStr /\ value # EmptyStr
      [] OTHER -> TRUE

\* mutant: a handler that answers 400 and submits its request all the same
HandlerRejectAndSubmit(r) ==
    /\ \E route \in Routes, key \in QueryValues, value \in QueryValues :
         ~ParamsOk(route, key, value)
    /\ \E rq \in Requests : Arrive(r, rq)
    /\ enabled /\ ~closed /\ Len(pendingRequests) < Capacity
    /\ pendingRequests' = Append(pendingRequests, r)
    /\ hpc' = [hpc EXCEPT ![r] = "rejected"]
    /\ status' = [status EXCEPT ![r] = StatusBadRequest]
    /\ UNCHANGED <<kind, enabled, late, closed, wpc, batch, timer, ResultChan,
                   ErrorChan, got, store, clientClosed, lastBatch, callLog,
                   execErr, direct, lpc, trips, maxBatchSize, sendq, closes,
                   cpc, left, wrote, todo, fi,
                   pingErr,
                   flagSet,
                   environ,
                   config>>

\* a request arrives without a required parameter:
\* http.Error(w, "Missing required parameter: ...", 400); return
HandlerReject(r) ==
    /\ Accepting
    /\ hpc[r] = "idle"
    /\ r > 1 => hpc[r - 1] # "idle"
    /\ \E route \in Routes, key \in QueryValues, value \in QueryValues :
         ~ParamsOk(route, key, value)
    /\ hpc' = [hpc EXCEPT ![r] = "rejected"]
    /\ status' = [status EXCEPT ![r] = StatusBadRequest]
    /\ UNCHANGED <<kind, enabled, req, late, pendingRequests, closed, wpc, batch,
                   timer, ResultChan, ErrorChan, got, store, clientClosed,
                   lastBatch, callLog, execErr, direct, lpc, trips,
                   maxBatchSize, sendq, closes, cpc, left, wrote, todo, fi,
                   pingErr,
                   flagSet,
                   environ,
                   config>>

\* mutant: a health check that goes through the batcher
HandlerHealthViaBatcher(r) ==
    /\ \E rq \in Requests : Arrive(r, rq)
    /\ enabled /\ ~closed /\ Len(pendingRequests) < Capacity
    /\ pendingRequests' = Append(pendingRequests, r)
    /\ hpc' = [hpc EXCEPT ![r] = "healthy"]
    /\ status' = [status EXCEPT ![r] = StatusOK]
    /\ UNCHANGED <<kind, enabled, late, closed, wpc, batch, timer, ResultChan,
                   ErrorChan, got, store, clientClosed, lastBatch, callLog,
                   execErr, direct, lpc, trips, maxBatchSize, sendq, closes,
                   cpc, left, wrote, todo, fi,
                   pingErr,
                   flagSet,
                   environ,
                   config>>

\* handleHealth: w.WriteHeader(http.StatusOK); w.Write([]byte("OK"))
HandlerHealth(r) ==
    /\ Accepting
    /\ hpc[r] = "idle"
    /\ r > 1 => hpc[r - 1] # "idle"
    /\ hpc' = [hpc EXCEPT ![r] = "healthy"]
    /\ status' = [status EXCEPT ![r] = StatusOK]
    /\ UNCHANGED <<kind, enabled, req, late, pendingRequests, closed, wpc, batch,
                   timer, ResultChan, ErrorChan, got, store, clientClosed,
                   lastBatch, callLog, execErr, direct, lpc, trips,
                   maxBatchSize, sendq, closes, cpc, left, wrote, todo, fi,
                   pingErr,
                   flagSet,
                   environ,
                   config>>

NextFront ==
    \/ Next
    \/ \E r \in Ids : HandlerReject(r)
    \/ \E r \in Ids : HandlerHealth(r)

SpecFront == Init /\ [][NextFront]_vars

(***************************************************************************)
(* The same agents with batching enabled under every configuration of      *)
(* --max-batch-size from 0 up: no value of the flag is rejected by main or *)
(* by NewS3Batcher / NewRedisBatcher.  With 0 the submission channel has   *)
(* no buffer and every Submit is a rendezvous with the worker.             *)
(***************************************************************************)
InitConfig ==
    /\ kind \in {"S3", "Redis"}
    /\ enabled = TRUE
    /\ maxBatchSize \in 0..MaxBatchSize
    /\ InitCommon

NextConfig ==
    \/ \E r \in Ids : Submit(r)
    \/ \E r \in Ids : SubmitBlock(r)
    \/ \E r \in Ids : SubmitClosed(r)
    \/ \E r \in Ids : HandlerReceive(r)
    \/ \E r \in Ids : HandlerCopy(r)
    \/ \E r \in Ids : HandlerClose(r)
    \/ WorkerFirst
    \/ WorkerExit
    \/ TimerFire
    \/ WorkerCollect
    \/ WorkerChanClosed
    \/ WorkerWindow
    \/ WorkerProcessS3
    \/ WorkerProcessRedis
    \/ AgentShutdown
    \/ ShutdownWait
    \/ ServerShutdown
    \/ ServerShutdownDone

SpecConfig == InitConfig /\ [][NextConfig]_vars

(***************************************************************************)
(* The read-forward S3Batcher (src/unnamed/part_010): kind = "S3Forward".  *)
(* Its Submit, Shutdown and processRequestsLoop are those of part_011; its *)
(* processBatch is not atomic with respect to the handlers, which receive  *)
(* from the same channels the worker reads.                                *)
(***************************************************************************)
\* executeRequest of part_010: one client call for request r, its output to
\* r's ResultChan or its error to r's ErrorChan; an unknown type gets the
\* unsupported-operation error without a call
S3executeRequest(r, g, backendOk) ==
    IF req[r].Type \in S3Types
    THEN [calls |-> <<Call(req[r].Type, req[r], g, S3Response(r, backendOk))>>,
          sends |-> <<Send(r, IF backendOk THEN "result" ELSE "error",
                           S3Response(r, backendOk))>>]
    ELSE [calls |-> <<>>, sends |-> <<Send(r, "error", ErrUnsupported)>>]

\* the copy loop of group g goes on with index i, or the group is finished
\* and processBatch goes on with the next group, or returns
ForwardAdvance(g, i) ==
    /\ todo' = IF i >= Len(g) THEN Tail(todo) ELSE todo
    /\ fi' = IF i >= Len(g) THEN 0 ELSE i
    /\ wpc' = IF i >= Len(g) /\ Tail(todo) = <<>> THEN "first" ELSE "forward"

\* timer.Stop(), drain, processBatch: the grouping loop, which executes the
\* requests of unknown type at once; og, ol are the map iteration orders
WorkerProcessForward ==
    /\ Running
    /\ kind = "S3Forward"
    /\ Collected
    /\ \E og \in Orders(S3Keys(batch, TypeGetObject)),
          ol \in Orders(S3Keys(batch, TypeListObjects)) :
         LET unknown == S3Unknown(batch)
             groups == [i \in 1..Len(og) |-> S3Group(batch, TypeGetObject, og[i])]
                       \o [i \in 1..Len(ol) |-> S3Group(batch, TypeListObjects, ol[i])]
                       \o (IF S3Group(batch, TypeListBuckets, EmptyStr) # <<>>
                           THEN <<S3Group(batch, TypeListBuckets, EmptyStr)>> ELSE <<>>)
             early == [i \in 1..Len(unknown) |->
                         S3executeRequest(unknown[i], <<unknown[i]>>, TRUE)]
         IN  /\ Deliver(Concat([i \in 1..Len(early) |-> early[i].sends]))
             /\ todo' = groups
             /\ wpc' = IF groups = <<>> THEN "first" ELSE "forward"
    /\ fi' = 0
    /\ lastBatch' = batch
    /\ callLog' = <<>>
    /\ execErr' = NoValue
    /\ direct' = FALSE
    /\ batch' = <<>>
    /\ timer' = "off"
    /\ trips' = 0
    /\ UNCHANGED <<kind, enabled, req, hpc, late, pendingRequests, closed, got,
                   store, clientClosed, lpc, maxBatchSize, sendq, closes, cpc,
                   left, wrote,
                   status,
                   pingErr,
                   flagSet,
                   environ,
                   config>>

\* b.executeRequest(ctx, requests[0]) for the current group
ForwardExecute ==
    /\ Running
    /\ kind = "S3Forward"
    /\ wpc = "forward"
    /\ todo # <<>>
    /\ fi = 0
    /\ \E backendOk \in BOOLEAN :
         LET run == S3executeRequest(Head(todo)[1], Head(todo), backendOk)
         IN  /\ Deliver(run.sends)
             /\ callLog' = callLog \o run.calls
    /\ ForwardAdvance(Head(todo), 1)
    /\ UNCHANGED <<kind, enabled, req, hpc, late, pendingRequests, closed, batch,
                   timer, got, store, clientClosed, lastBatch, execErr, direct,
                   lpc, trips, maxBatchSize, sendq, closes, cpc, left, wrote,
                   status,
                   pingErr,
                   flagSet,
                   environ,
                   config>>

\* the copy loop: select on requests[0].ResultChan / requests[0].ErrorChan,
\* and what was received is sent to requests[i]; the select waits while
\* both channels are empty
ForwardCopy ==
    /\ Running
    /\ kind = "S3Forward"
    /\ wpc = "forward"
    /\ todo # <<>>
    /\ fi >= 1
    /\ LET first == Head(todo)[1]
           target == Head(todo)[fi + 1]
       IN  \/ /\ ResultChan[first] # <<>>
              /\ ResultChan' = [ResultChan EXCEPT
                                  ![first] = Tail(ResultChan[first]),
                                  ![target] = Append(ResultChan[target], Head(ResultChan[first]))]
              /\ UNCHANGED ErrorChan
           \/ /\ ErrorChan[first] # <<>>
              /\ ErrorChan' = [ErrorChan EXCEPT
                                 ![first] = Tail(ErrorChan[first]),
                                 ![target] = Append(ErrorChan[target], Head(ErrorChan[first]))]
              /\ UNCHANGED ResultChan
    /\ ForwardAdvance(Head(todo), fi + 1)
    /\ UNCHANGED <<kind, enabled, req, hpc, late, pendingRequests, closed, batch,
                   timer, got, store, clientClosed, lastBatch, callLog, execErr,
                   direct, lpc, trips, maxBatchSize, sendq, closes, cpc, left,
                   wrote,
                   status,
                   pingErr,
                   flagSet,
                   environ,
                   config>>

InitForward ==
    /\ kind = "S3Forward"
    /\ enabled = TRUE
    /\ maxBatchSize = MaxBatchSize
    /\ InitCommon

NextForward ==
    \/ \E r \in Ids : Submit(r)
    \/ \E r \in Ids : SubmitClosed(r)
    \/ \E r \in Ids : HandlerReceive(r)
    \/ \E r \in Ids : HandlerCopy(r)
    \/ \E r \in Ids : HandlerClose(r)
    \/ WorkerFirst
    \/ WorkerExit
    \/ TimerFire
    \/ WorkerCollect
    \/ WorkerChanClosed
    \/ WorkerWindow
    \/ WorkerProcessForward
    \/ ForwardExecute
    \/ ForwardCopy
    \/ AgentShutdown
    \/ ShutdownWait
    \/ ServerShutdown
    \/ ServerShutdownDone

SpecForward == InitForward /\ [][NextForward]_vars

(***************************************************************************)
(* The simple key-value agent (src/unnamed/part_003, lines 450-941):       *)
(* kind = "Simple".  Its Batcher does not coalesce; every request has one  *)
(* channel, ResultCh, that carries Result{Value, Error}: the model keeps   *)
(* it in ResultChan and leaves ErrorChan empty.  The Batcher is driven     *)
(* either by main of the agent (lpc starts at "serving") or by a caller    *)
(* that uses Submit and Shutdown directly (lpc starts at "library").       *)
(***************************************************************************)
\* the requests handleGet / handleSet / handleDel build in this model
SimpleRequests ==
    {BatchRequest(TypeGet, EmptyStr, sA, EmptyStr, 0, EmptyStr),
     BatchRequest(TypeGet, EmptyStr, sAA, EmptyStr, 0, EmptyStr),
     BatchRequest(TypeSet, EmptyStr, sA, EmptyStr, 0, sAA),
     BatchRequest(TypeDel, EmptyStr, sA, EmptyStr, 0, EmptyStr)}

\* NewBatcher: the worker goroutine is started at once
InitSimple ==
    /\ kind = "Simple"
    /\ enabled = TRUE
    /\ req = [r \in Ids |-> NoRequest]
    /\ hpc = [r \in Ids |-> "idle"]
    /\ late = [r \in Ids |-> FALSE]
    /\ pendingRequests = <<>>
    /\ closed = FALSE
    /\ wpc = "loop"
    /\ batch = <<>>
    /\ timer = "off"
    /\ ResultChan = [r \in Ids |-> <<>>]
    /\ ErrorChan = [r \in Ids |-> <<>>]
    /\ got = [r \in Ids |-> NoValue]
    /\ store = [k \in StoreKeys |-> IF k = sA THEN sA ELSE Missing]
    /\ clientClosed = FALSE
    /\ lastBatch = <<>>
    /\ callLog = <<>>
    /\ execErr = NoValue
    /\ direct = FALSE
    /\ lpc \in {"serving", "library"}
    /\ trips = 0
    /\ maxBatchSize = MaxBatchSize
    /\ sendq = <<>>
    /\ closes = [r \in Ids |-> 0]
    /\ cpc = [r \in Ids |-> "none"]
    /\ left = [r \in Ids |-> BodyLen]
    /\ wrote = [r \in Ids |-> <<>>]
    /\ todo = <<>>
    /\ fi = 0
    /\ status = [r \in Ids |-> 0]
    /\ pingErr = FALSE
    /\ flagSet = Flags(DefaultPort, enabled, DefaultBatchWindow, maxBatchSize, FALSE)
    /\ environ = [n \in EnvNames |-> Unset]
    /\ config = SimpleConfiguration(DefaultPort, DefaultBatchWindow, maxBatchSize)

\* somebody may call Submit: the fasthttp server accepts connections, or
\* the Batcher is used directly
SimpleAccepting == lpc \in {"serving", "library", "libWgWait", "libDown"}

\* Submit, case b.requests <- req
SimpleSubmit(r) ==
    /\ SimpleAccepting
    /\ hpc[r] = "idle"
    /\ r > 1 => hpc[r - 1] # "idle"
    /\ \E rq \in SimpleRequests : req' = [req EXCEPT ![r] = rq]
    /\ Len(pendingRequests) < Capacity
    /\ pendingRequests' = Append(pendingRequests, r)
    /\ hpc' = [hpc EXCEPT ![r] = "waiting"]
    /\ late' = [late EXCEPT ![r] = closed]
    /\ UNCHANGED <<kind, enabled, closed, wpc, batch, timer, ResultChan,
                   ErrorChan, got, store, clientClosed, lastBatch, callLog,
                   execErr, direct, lpc,
                   trips,
                   maxBatchSize,
                   sendq,
                   closes,
                   cpc,
                   left,
                   wrote,
                   todo,
                   fi,
                   status,
                   pingErr,
                   flagSet,
                   environ,
                   config>>

\* Submit, case <-b.shutdown: the request is failed at once
SimpleSubmitShutdown(r) ==
    /\ SimpleAccepting
    /\ hpc[r] = "idle"
    /\ r > 1 => hpc[r - 1] # "idle"
    /\ \E rq \in SimpleRequests : req' = [req EXCEPT ![r] = rq]
    /\ closed
    /\ Deliver(<<Send(r, "result", ErrShuttingDown)>>)
    /\ hpc' = [hpc EXCEPT ![r] = "waiting"]
    /\ late' = [late EXCEPT ![r] = TRUE]
    /\ UNCHANGED <<kind, enabled, pendingRequests, closed, wpc, batch, timer,
                   got, store, clientClosed, lastBatch, callLog, execErr,
                   direct, lpc,
                   trips,
                   maxBatchSize,
                   sendq,
                   closes,
                   cpc,
                   left,
                   wrote,
                   todo,
                   fi,
                   status,
                   pingErr,
                   flagSet,
                   environ,
                   config>>

\* processRequests: select { case <-b.shutdown: return; default: processBatch() }
\* and the head of processBatch, timer := time.NewTimer(b.batchWindow)
SimpleLoop ==
    /\ Running
    /\ wpc = "loop"
    /\ wpc' = IF closed THEN "exited" ELSE "first"
    /\ timer' = IF closed THEN "off" ELSE "armed"
    /\ UNCHANGED <<kind, enabled, req, hpc, late, pendingRequests, closed, batch,
                   ResultChan, ErrorChan, got, store, clientClosed, lastBatch,
                   callLog, execErr, direct, lpc,
                   trips,
                   maxBatchSize,
                   sendq,
                   closes,
                   cpc,
                   left,
                   wrote,
                   todo,
                   fi,
                   status,
                   pingErr,
                   flagSet,
                   environ,
                   config>>

\* processBatch, first select, case req := <-b.requests; the timer was
\* created before the select, and timer.Reset does not drain timer.C, so
\* the expiry of a timer that fired while the worker was waiting for the
\* first request stays readable (go 1.21 timers); the re-armed timer's own
\* expiry finds timer.C full and is dropped
SimpleFirst ==
    /\ Running
    /\ wpc = "first"
    /\ pendingRequests # <<>>
    /\ batch' = <<Head(pendingRequests)>>
    /\ pendingRequests' = Tail(pendingRequests)
    /\ timer' = IF timer = "fired" THEN "stale" ELSE "armed"
    /\ wpc' = "collect"
    /\ UNCHANGED <<kind, enabled, req, hpc, late, closed, ResultChan, ErrorChan,
                   got, store, clientClosed, lastBatch, callLog, execErr, direct, lpc,
                   trips,
                   maxBatchSize,
                   sendq,
                   closes,
                   cpc,
                   left,
                   wrote,
                   todo,
                   fi,
                   status,
                   pingErr,
                   flagSet,
                   environ,
                   config>>

\* processBatch, first select, case <-b.shutdown: timer.Stop(); return
SimpleFirstShutdown ==
    /\ Running
    /\ wpc = "first"
    /\ closed
    /\ timer' = "off"
    /\ wpc' = "loop"
    /\ UNCHANGED <<kind, enabled, req, hpc, late, pendingRequests, closed, batch,
                   ResultChan, ErrorChan, got, store, clientClosed, lastBatch,
                   callLog, execErr, direct, lpc,
                   trips,
                   maxBatchSize,
                   sendq,
                   closes,
                   cpc,
                   left,
                   wrote,
                   todo,
                   fi,
                   status,
                   pingErr,
                   flagSet,
                   environ,
                   config>>

\* collectLoop, case req := <-b.requests
SimpleCollect ==
    /\ Running
    /\ wpc = "collect"
    /\ Len(batch) < maxBatchSize
    /\ pendingRequests # <<>>
    /\ batch' = Append(batch, Head(pendingRequests))
    /\ pendingRequests' = Tail(pendingRequests)
    /\ UNCHANGED <<kind, enabled, req, hpc, late, closed, wpc, timer, ResultChan,
                   ErrorChan, got, store, clientClosed, lastBatch, callLog,
                   execErr, direct, lpc,
                   trips,
                   maxBatchSize,
                   sendq,
                   closes,
                   cpc,
                   left,
                   wrote,
                   todo,
                   fi,
                   status,
                   pingErr,
                   flagSet,
                   environ,
                   config>>

\* collectLoop, case <-timer.C
SimpleWindow ==
    /\ Running
    /\ wpc = "collect"
    /\ Len(batch) < maxBatchSize
    /\ timer \in {"fired", "stale"}
    /\ timer' = "off"
    /\ wpc' = "process"
    /\ UNCHANGED <<kind, enabled, req, hpc, late, pendingRequests, closed, batch,
                   ResultChan, ErrorChan, got, store, clientClosed, lastBatch,
                   callLog, execErr, direct, lpc,
                   trips,
                   maxBatchSize,
                   sendq,
                   closes,
                   cpc,
                   left,
                   wrote,
                   todo,
                   fi,
                   status,
                   pingErr,
                   flagSet,
                   environ,
                   config>>

\* collectLoop, case <-b.shutdown: timer.Stop(), every request collected so
\* far is sent the shutdown error, return
SimpleCollectShutdown ==
    /\ Running
    /\ wpc = "collect"
    /\ Len(batch) < maxBatchSize
    /\ closed
    /\ Deliver([i \in 1..Len(batch) |-> Send(batch[i], "result", ErrShuttingDown)])
    /\ lastBatch' = batch
    /\ callLog' = <<>>
    /\ execErr' = NoValue
    /\ direct' = FALSE
    /\ batch' = <<>>
    /\ timer' = "off"
    /\ wpc' = "loop"
    /\ trips' = 0
    /\ UNCHANGED <<kind, enabled, req, hpc, late, pendingRequests, closed, got,
                   store, clientClosed, lpc,
                   maxBatchSize,
                   sendq,
                   closes,
                   cpc,
                   left,
                   wrote,
                   todo,
                   fi,
                   status,
                   pingErr,
                   flagSet,
                   environ,
                   config>>

\* the number of requests of type t in b: len(getRequests), len(setRequests)
CountType(b, t) == Cardinality({i \in 1..Len(b) : req[b[i]].Type = t})

\* the map and the index the result loop uses for pipeline result i (i
\* counts from 1, at is the batch position the map is asked for)
Owner(b, i) ==
    LET ng == CountType(b, TypeGet)
        ns == CountType(b, TypeSet)
    IN  IF i - 1 < ng THEN [t |-> TypeGet, at |-> i]
        ELSE IF i - 1 < ng + ns THEN [t |-> TypeSet, at |-> i - ng]
        ELSE [t |-> TypeDel, at |-> i - ng - ns]

\* getRequests[i] (setRequests[..], delRequests[..]) holds a request: the
\* maps are keyed by the position in the batch
Found(b, i) == req[b[Owner(b, i).at]].Type = Owner(b, i).t

\* the Result the result loop builds from pipeline result out for a request
\* of type t: Get maps redis.Nil to the empty value, Set gives "OK", Del
\* gives strconv.FormatInt(count, 10)
SimpleResult(t, out) ==
    CASE t = TypeGet -> IF ~out.ok /\ out # RedisNil THEN out
                        ELSE Result(IF out.ok THEN out.str ELSE EmptyStr, 0, out.rep)
      [] t = TypeSet -> IF ~out.ok THEN out ELSE Result(sOK, 0, out.rep)
      [] OTHER -> IF ~out.ok THEN out ELSE Result(FormatInt(out.num), 0, out.rep)

\* processBatch after collection: one pipeline command per request in batch
\* order, Exec, a global error (not redis.Nil) to every request, otherwise
\* the result loop; the loop panics at the first result whose map lookup
\* gives no request
SimpleprocessBatch(b, transportOk, srvOk) ==
    LET cmds == [i \in 1..Len(b) |-> Cmd(req[b[i]].Type, req[b[i]].Key, req[b[i]].Value, <<b[i]>>)]
        ex == Exec(cmds, store, transportOk, srvOk)
        global == ex.err # NoValue /\ ex.err # RedisNil
        bad == {i \in 1..Len(b) : ~Found(b, i)}
        stop == IF bad = {} THEN Len(b) + 1
                ELSE CHOOSE i \in bad : \A j \in bad : i <= j
    IN [calls |-> [i \in 1..Len(cmds) |-> Call(cmds[i].Type, req[b[i]], <<b[i]>>, ex.outs[i])],
        sends |-> IF global
                  THEN [i \in 1..Len(b) |-> Send(b[i], "result", ex.err)]
                  ELSE [i \in 1..(stop - 1) |->
                          Send(b[Owner(b, i).at], "result",
                               SimpleResult(Owner(b, i).t, ex.outs[i]))],
        store |-> ex.store,
        err |-> ex.err,
        trips |-> ex.trips,
        panic |-> ~global /\ bad # {}]

\* processBatch from timer.Stop() to its return; a panic of the worker
\* goroutine ends the process
SimpleProcess ==
    /\ Running
    /\ kind = "Simple"
    /\ Collected
    /\ \E transportOk \in BOOLEAN, srvOk \in [1..Len(batch) -> BOOLEAN] :
         LET run == SimpleprocessBatch(batch, transportOk, srvOk)
         IN  /\ Deliver(run.sends)
             /\ callLog' = run.calls
             /\ store' = run.store
             /\ execErr' = run.err
             /\ trips' = run.trips
             /\ wpc' = IF run.panic THEN "panicked" ELSE "loop"
             /\ lpc' = IF run.panic THEN "crashed" ELSE lpc
    /\ lastBatch' = batch
    /\ direct' = FALSE
    /\ batch' = <<>>
    /\ timer' = "off"
    /\ UNCHANGED <<kind, enabled, req, hpc, late, pendingRequests, closed, got,
                   clientClosed,
                   maxBatchSize,
                   sendq,
                   closes,
                   cpc,
                   left,
                   wrote,
                   todo,
                   fi,
                   status,
                   pingErr,
                   flagSet,
                   environ,
                   config>>

\* main: <-signals; server.Shutdown() closes the listeners
MainSignal ==
    /\ lpc = "serving"
    /\ lpc' = "serverDraining"
    /\ UNCHANGED <<kind, enabled, req, hpc, late, pendingRequests, closed, wpc,
                   batch, timer, ResultChan, ErrorChan, got, store, clientClosed,
                   lastBatch, callLog, execErr, direct,
                   trips,
                   maxBatchSize,
                   sendq,
                   closes,
                   cpc,
                   left,
                   wrote,
                   todo,
                   fi,
                   status,
                   pingErr,
                   flagSet,
                   environ,
                   config>>

\* main: server.Shutdown() returns when no connection is open any more;
\* batcher.Shutdown() then starts with close(b.shutdown)
MainBatcherShutdown ==
    /\ lpc = "serverDraining"
    /\ \A r \in Ids : hpc[r] # "waiting"
    /\ closed' = TRUE
    /\ lpc' = "wgWait"
    /\ UNCHANGED <<kind, enabled, req, hpc, late, pendingRequests, wpc, batch,
                   timer, ResultChan, ErrorChan, got, store, clientClosed,
                   lastBatch, callLog, execErr, direct,
                   trips,
                   maxBatchSize,
                   sendq,
                   closes,
                   cpc,
                   left,
                   wrote,
                   todo,
                   fi,
                   status,
                   pingErr,
                   flagSet,
                   environ,
                   config>>

\* Shutdown called by a direct user of the Batcher: close(b.shutdown)
SimpleShutdown ==
    /\ lpc = "library"
    /\ closed' = TRUE
    /\ lpc' = "libWgWait"
    /\ UNCHANGED <<kind, enabled, req, hpc, late, pendingRequests, wpc, batch,
                   timer, ResultChan, ErrorChan, got, store, clientClosed,
                   lastBatch, callLog, execErr, direct,
                   trips,
                   maxBatchSize,
                   sendq,
                   closes,
                   cpc,
                   left,
                   wrote,
                   todo,
                   fi,
                   status,
                   pingErr,
                   flagSet,
                   environ,
                   config>>

\* Shutdown: b.wg.Wait() returns once the worker has returned, then
\* b.client.Close()
SimpleShutdownWait ==
    /\ lpc \in {"wgWait", "libWgWait"}
    /\ wpc = "exited"
    /\ clientClosed' = TRUE
    /\ lpc' = IF lpc = "wgWait" THEN "batcherDown" ELSE "libDown"
    /\ UNCHANGED <<kind, enabled, req, hpc, late, pendingRequests, closed, wpc,
                   batch, timer, ResultChan, ErrorChan, got, store, lastBatch,
                   callLog, execErr, direct,
                   trips,
                   maxBatchSize,
                   sendq,
                   closes,
                   cpc,
                   left,
                   wrote,
                   todo,
                   fi,
                   status,
                   pingErr,
                   flagSet,
                   environ,
                   config>>

\* main returns: the deferred batcher.Shutdown() closes b.shutdown a second
\* time, which panics
MainDeferredShutdown ==
    /\ lpc = "batcherDown"
    /\ lpc' = "crashed"
    /\ UNCHANGED <<kind, enabled, req, hpc, late, pendingRequests, closed, wpc,
                   batch, timer, ResultChan, ErrorChan, got, store, clientClosed,
                   lastBatch, callLog, execErr, direct,
                   trips,
                   maxBatchSize,
                   sendq,
                   closes,
                   cpc,
                   left,
                   wrote,
                   todo,
                   fi,
                   status,
                   pingErr,
                   flagSet,
                   environ,
                   config>>

NextSimple ==
    \/ \E r \in Ids : SimpleSubmit(r)
    \/ \E r \in Ids : SimpleSubmitShutdown(r)
    \/ \E r \in Ids : HandlerReceive(r)
    \/ TimerFire
    \/ SimpleLoop
    \/ SimpleFirst
    \/ SimpleFirstShutdown
    \/ SimpleCollect
    \/ SimpleWindow
    \/ SimpleCollectShutdown
    \/ SimpleProcess
    \/ MainSignal
    \/ MainBatcherShutdown
    \/ SimpleShutdown
    \/ SimpleShutdownWait
    \/ MainDeferredShutdown

SpecSimple == InitSimple /\ [][NextSimple]_vars

(***************************************************************************)
(* Startup of the key-value agents: the constructor of the batcher pings   *)
(* the Redis server before the agent serves                                *)
(* (Dockerfile 197-227 with part_003 425-432; part_003 513-542 with        *)
(* part_003 907-911).                                                      *)
(***************************************************************************)
\* main has parsed its configuration; no batcher exists yet
InitStart ==
    /\ kind \in {"Redis", "Simple"}
    /\ enabled \in (IF kind = "Simple" THEN {TRUE} ELSE BOOLEAN)
    /\ wpc = "none"
    /\ lpc = "starting"
    /\ req = [r \in Ids |-> NoRequest]
    /\ hpc = [r \in Ids |-> "idle"]
    /\ late = [r \in Ids |-> FALSE]
    /\ pendingRequests = <<>>
    /\ closed = FALSE
    /\ batch = <<>>
    /\ timer = "off"
    /\ ResultChan = [r \in Ids |-> <<>>]
    /\ ErrorChan = [r \in Ids |-> <<>>]
    /\ got = [r \in Ids |-> NoValue]
    /\ store = [k \in StoreKeys |-> IF k = sA THEN sA ELSE Missing]
    /\ clientClosed = FALSE
    /\ lastBatch = <<>>
    /\ callLog = <<>>
    /\ execErr = NoValue
    /\ direct = FALSE
    /\ trips = 0
    /\ maxBatchSize = MaxBatchSize
    /\ sendq = <<>>
    /\ closes = [r \in Ids |-> 0]
    /\ cpc = [r \in Ids |-> "none"]
    /\ left = [r \in Ids |-> BodyLen]
    /\ wrote = [r \in Ids |-> <<>>]
    /\ todo = <<>>
    /\ fi = 0
    /\ status = [r \in Ids |-> 0]
    /\ pingErr = FALSE
    /\ flagSet = Flags(DefaultPort, enabled, DefaultBatchWindow, maxBatchSize, FALSE)
    /\ environ = [n \in EnvNames |-> Unset]
    /\ config = IF kind = "Simple"
                THEN SimpleConfiguration(DefaultPort, DefaultBatchWindow, maxBatchSize)
                ELSE Configuration(DefaultPort, enabled, DefaultBatchWindow, maxBatchSize, FALSE)

\* NewRedisBatcher: a failed Ping is logged ("Warning: Redis connection
\* failed") and construction goes on; the worker is started when batching
\* is enabled; NewBatchingAgent returns the agent and main starts the server
NewRedisBatcher ==
    /\ kind = "Redis"
    /\ lpc = "starting"
    /\ \E pingOk \in BOOLEAN : pingErr' = ~pingOk
    /\ wpc' = IF enabled THEN "first" ELSE "none"
    /\ lpc' = "serving"
    /\ UNCHANGED <<kind, enabled, req, hpc, late, pendingRequests, closed,
                   batch, timer, ResultChan, ErrorChan, got, store,
                   clientClosed, lastBatch, callLog, execErr, direct, trips,
                   maxBatchSize, sendq, closes, cpc, left, wrote, todo, fi,
                   status,
                   flagSet,
                   environ,
                   config>>

\* NewBatcher: a failed Ping makes the constructor return (nil, error), on
\* which main calls log.Fatalf and the process exits with status 1; after a
\* successful Ping the worker is started and the Batcher is handed to main
\* (or to the program that embeds it)
NewBatcher ==
    /\ kind = "Simple"
    /\ lpc = "starting"
    /\ \E pingOk \in BOOLEAN :
         /\ pingErr' = ~pingOk
         /\ IF pingOk
            THEN wpc' = "loop" /\ lpc' \in {"serving", "library"}
            ELSE wpc' = "none" /\ lpc' = "fatal"
    /\ UNCHANGED <<kind, enabled, req, hpc, late, pendingRequests, closed,
                   batch, timer, ResultChan, ErrorChan, got, store,
                   clientClosed, lastBatch, callLog, execErr, direct, trips,
                   maxBatchSize, sendq, closes, cpc, left, wrote, todo, fi,
                   status,
                   flagSet,
                   environ,
                   config>>

NextStart ==
    \/ NewRedisBatcher
    \/ NewBatcher
    \/ kind = "Redis" /\ \E r \in Ids : Submit(r)
    \/ kind = "Redis" /\ \E r \in Ids : SubmitClosed(r)
    \/ kind = "Redis" /\ \E r \in Ids : HandlerBuild(r)
    \/ kind = "Redis" /\ \E r \in Ids : SubmitDirectRedis(r)
    \/ kind = "Redis" /\ \E r \in Ids : HandlerReceive(r)
    \/ kind = "Redis" /\ WorkerFirst
    \/ kind = "Redis" /\ WorkerExit
    \/ kind = "Redis" /\ TimerFire
    \/ kind = "Redis" /\ WorkerCollect
    \/ kind = "Redis" /\ WorkerChanClosed
    \/ kind = "Redis" /\ WorkerWindow
    \/ kind = "Redis" /\ WorkerProcessRedis
    \/ kind = "Redis" /\ AgentShutdown
    \/ kind = "Redis" /\ ShutdownWait
    \/ kind = "Redis" /\ ServerShutdown
    \/ kind = "Redis" /\ ServerShutdownDone
    \/ kind = "Simple" /\ \E r \in Ids : SimpleSubmit(r)
    \/ kind = "Simple" /\ \E r \in Ids : SimpleSubmitShutdown(r)
    \/ kind = "Simple" /\ \E r \in Ids : HandlerReceive(r)
    \/ kind = "Simple" /\ TimerFire
    \/ kind = "Simple" /\ SimpleLoop
    \/ kind = "Simple" /\ SimpleFirst
    \/ kind = "Simple" /\ SimpleFirstShutdown
    \/ kind = "Simple" /\ SimpleCollect
    \/ kind = "Simple" /\ SimpleWindow
    \/ kind = "Simple" /\ SimpleCollectShutdown
    \/ kind = "Simple" /\ SimpleProcess
    \/ kind = "Simple" /\ MainSignal
    \/ kind = "Simple" /\ MainBatcherShutdown
    \/ kind = "Simple" /\ SimpleShutdown
    \/ kind = "Simple" /\ SimpleShutdownWait
    \/ kind = "Simple" /\ MainDeferredShutdown

SpecStart == InitStart /\ [][NextStart]_vars

(***************************************************************************)
(* main, from flag.Parse() to the Configuration it builds                  *)
(* (part_003 362-424, main.go 331-357, part_003 854-897).                  *)
(***************************************************************************)
\* the environments of this model: each variable is unset, empty, set to
\* a string that parses (ParseBool: one for each value) or to one that does
\* not
Environs ==
    LET EnvInts == {Unset, SetTo(EmptyStr), SetTo(<<"1">>), SetTo(<<"x">>)}
        EnvBools == {Unset, SetTo(EmptyStr), SetTo(<<"0">>),
                     SetTo(<<"t", "r", "u", "e">>), SetTo(<<"y", "e", "s">>)}
        EnvDurations == {Unset, SetTo(EmptyStr), SetTo(<<"1", "m", "s">>),
                         SetTo(<<"1">>)}
    IN  {[n \in EnvNames |->
             CASE n = "PORT" -> p
               [] n = "BATCHING_ENABLED" -> b
               [] n = "BATCH_WINDOW" -> w
               [] n = "MAX_BATCH_SIZE" -> m
               [] n = "DEBUG_MODE" -> d] :
           p \in EnvInts, b \in EnvBools, w \in EnvDurations, m \in EnvInts,
           d \in EnvBools}

\* the command lines of this model: every flag is left at its default or
\* given another value
FlagSets ==
    {Flags(p, b, w, m, d) :
       p \in {DefaultPort, 2}, b \in BOOLEAN, w \in {DefaultBatchWindow, 2},
       m \in {DefaultMaxBatchSize, 2}, d \in BOOLEAN}

\* main after flag.Parse(): no Configuration and no batcher yet (their
\* fields hold Go's zero values)
InitParse ==
    /\ kind \in {"S3", "Redis", "Simple"}
    /\ enabled = FALSE
    /\ maxBatchSize = 0
    /\ wpc = "none"
    /\ lpc = "parsing"
    /\ flagSet \in FlagSets
    /\ environ \in Environs
    /\ config = IF kind = "Simple" THEN SimpleConfiguration(0, 0, 0)
                ELSE Configuration(0, FALSE, 0, 0, FALSE)
    /\ req = [r \in Ids |-> NoRequest]
    /\ hpc = [r \in Ids |-> "idle"]
    /\ late = [r \in Ids |-> FALSE]
    /\ pendingRequests = <<>>
    /\ closed = FALSE
    /\ batch = <<>>
    /\ timer = "off"
    /\ ResultChan = [r \in Ids |-> <<>>]
    /\ ErrorChan = [r \in Ids |-> <<>>]
    /\ got = [r \in Ids |-> NoValue]
    /\ store = [k \in StoreKeys |-> IF k = sA THEN sA ELSE Missing]
    /\ clientClosed = FALSE
    /\ lastBatch = <<>>
    /\ callLog = <<>>
    /\ execErr = NoValue
    /\ direct = FALSE
    /\ trips = 0
    /\ sendq = <<>>
    /\ closes = [r \in Ids |-> 0]
    /\ cpc = [r \in Ids |-> "none"]
    /\ left = [r \in Ids |-> BodyLen]
    /\ wrote = [r \in Ids |-> <<>>]
    /\ todo = <<>>
    /\ fi = 0
    /\ status = [r \in Ids |-> 0]
    /\ pingErr = FALSE

\* main of the Redis BatchingAgent: a variable that is set and not empty
\* replaces the flag's value through parseEnv*
MainRedis ==
    /\ kind = "Redis"
    /\ lpc = "parsing"
    /\ config' = Configuration(
         IF Getenv("PORT") # EmptyStr
         THEN parseEnvInt("PORT", flagSet["port"]) ELSE flagSet["port"],
         IF Getenv("BATCHING_ENABLED") # EmptyStr
         THEN parseEnvBool("BATCHING_ENABLED", flagSet["batching"])
         ELSE flagSet["batching"],
         IF Getenv("BATCH_WINDOW") # EmptyStr
         THEN parseEnvDuration("BATCH_WINDOW", flagSet["batch-window"])
         ELSE flagSet["batch-window"],
         IF Getenv("MAX_BATCH_SIZE") # EmptyStr
         THEN parseEnvInt("MAX_BATCH_SIZE", flagSet["max-batch-size"])
         ELSE flagSet["max-batch-size"],
         IF Getenv("DEBUG_MODE") # EmptyStr
         THEN parseEnvBool("DEBUG_MODE", flagSet["debug"]) ELSE flagSet["debug"])
    /\ lpc' = "starting"
    /\ UNCHANGED <<kind, enabled, req, hpc, late, pendingRequests, closed,
                   wpc, batch, timer, ResultChan, ErrorChan, got, store,
                   clientClosed, lastBatch, callLog, execErr, direct, trips,
                   maxBatchSize, sendq, closes, cpc, left, wrote, todo, fi,
                   status, pingErr, flagSet, environ>>

\* main of the S3 BatchingAgent: the Configuration is built from the flags;
\* the environment is read for the AWS credentials only
MainS3 ==
    /\ kind = "S3"
    /\ lpc = "parsing"
    /\ config' = Configuration(flagSet["port"], flagSet["batching"],
                               flagSet["batch-window"], flagSet["max-batch-size"],
                               flagSet["debug"])
    /\ lpc' = "starting"
    /\ UNCHANGED <<kind, enabled, req, hpc, late, pendingRequests, closed,
                   wpc, batch, timer, ResultChan, ErrorChan, got, store,
                   clientClosed, lastBatch, callLog, execErr, direct, trips,
                   maxBatchSize, sendq, closes, cpc, left, wrote, todo, fi,
                   status, pingErr, flagSet, environ>>

\* main of the simple key-value agent: the integers go through
\* strconv.Itoa and back through strconv.Atoi, whose error is dropped
MainSimple ==
    /\ kind = "Simple"
    /\ lpc = "parsing"
    /\ config' = SimpleConfiguration(
         Atoi(getEnvOrDefault("PORT", Itoa(flagSet["port"]))).v,
         IF getEnvOrDefault("BATCH_WINDOW", EmptyStr) # EmptyStr
            /\ ParseDuration(getEnvOrDefault("BATCH_WINDOW", EmptyStr)).ok
         THEN ParseDuration(getEnvOrDefault("BATCH_WINDOW", EmptyStr)).v
         ELSE flagSet["batch-window"],
         Atoi(getEnvOrDefault("MAX_BATCH_SIZE", Itoa(flagSet["max-batch-size"]))).v)
    /\ lpc' = "starting"
    /\ UNCHANGED <<kind, enabled, req, hpc, late, pendingRequests, closed,
                   wpc, batch, timer, ResultChan, ErrorChan, got, store,
                   clientClosed, lastBatch, callLog, execErr, direct, trips,
                   maxBatchSize, sendq, closes, cpc, left, wrote, todo, fi,
                   status, pingErr, flagSet, environ>>

NextParse ==
    \/ MainRedis
    \/ MainS3
    \/ MainSimple

SpecParse == InitParse /\ [][NextParse]_vars

(***************************************************************************)
(* Vocabulary of the properties.                                           *)
(***************************************************************************)
\* the number of values the batcher has sent to request r so far
Sends(r) == Len(ResultChan[r]) + Len(ErrorChan[r]) + (IF hpc[r] = "done" THEN 1 ELSE 0)

\* the value delivered to request r (NoValue: none yet)
Delivered(r) ==
    IF hpc[r] = "done" THEN got[r]
    ELSE IF ResultChan[r] # <<>> THEN Head(ResultChan[r])
    ELSE IF ErrorChan[r] # <<>> THEN Head(ErrorChan[r])
    ELSE NoValue

\* the delivery came over ResultChan
OnResultChan(r) == IF hpc[r] = "done" THEN got[r].ok ELSE ResultChan[r] # <<>>

\* Submit accepted r and the batcher is done with it
Processed(r) ==
    /\ hpc[r] \in {"waiting", "done"}
    /\ r \notin Range(pendingRequests)
    /\ r \notin Range(batch)

Supported(rq) ==
    IF kind \in {"S3", "S3Forward"} THEN rq.Type \in S3Types ELSE rq.Type \in RedisTypes

\* the map key the code groups rq under
GroupKey(rq) ==
    IF kind \in {"S3", "S3Forward"} THEN S3GroupKey(rq) ELSE RedisGroupKey(rq)

\* the grouping-key tuple of the data model: the request with every field
\* that is not part of its type's tuple blanked
GroupTuple(rq) ==
    CASE rq.Type = TypeGetObject ->
           BatchRequest(rq.Type, rq.BucketName, rq.Key, EmptyStr, 0, EmptyStr)
      [] rq.Type = TypeListObjects ->
           BatchRequest(rq.Type, rq.BucketName, EmptyStr, rq.Prefix, rq.MaxKeys, EmptyStr)
      [] rq.Type = TypeSet ->
           BatchRequest(rq.Type, EmptyStr, rq.Key, EmptyStr, 0, rq.Value)
      [] rq.Type \in {TypeGet, TypeDel, TypeExists} ->
           BatchRequest(rq.Type, EmptyStr, rq.Key, EmptyStr, 0, EmptyStr)
      [] OTHER -> BatchRequest(rq.Type, EmptyStr, EmptyStr, EmptyStr, 0, EmptyStr)

\* the supported requests of the latest batch
LastSupported == {r \in Range(lastBatch) : Supported(req[r])}

\* r1 and r2 were served by the same backend operation
InSameCall(r1, r2) ==
    \E i \in 1..Len(callLog) :
        r1 \in Range(callLog[i].members) /\ r2 \in Range(callLog[i].members)

\* the code filed r1 and r2 of the latest batch under the same map entry
SameGroup(r1, r2) ==
    /\ req[r1].Type = req[r2].Type
    /\ GroupKey(req[r1]) = GroupKey(req[r2])

\* the worker goroutine has stopped for good
WorkerStopped == wpc \in {"exited", "panicked"}

\* the batcher's Shutdown has returned to its caller
ShutdownReturned == lpc \in {"batcherDown", "serverClosing", "exited", "libDown"}

\* the first request of the latest batch that is in r's group
Representative(r) ==
    lastBatch[CHOOSE i \in 1..Len(lastBatch) :
                /\ SameGroup(lastBatch[i], r)
                /\ \A j \in 1..(i-1) : ~SameGroup(lastBatch[j], r)]

(***************************************************************************)
(* C1: every request the batcher has finished with was sent exactly one    *)
(* value, on exactly one of its two channels; at no time has a request     *)
(* been sent more than one value (so a send never finds its channel full). *)
(***************************************************************************)
C1_ExactlyOneDelivery ==
    \A r \in Ids :
        /\ Sends(r) <= 1
        /\ Len(ResultChan[r]) + Len(ErrorChan[r]) <= 1
        /\ Processed(r) => Sends(r) = 1

\* a coalesced group of two in a batch, one value each, after which a
\* handler has already taken its value
C1_Witness ==
    /\ ~direct
    /\ Len(lastBatch) = 2
    /\ InSameCall(lastBatch[1], lastBatch[2])
    /\ lastBatch[1] # lastBatch[2]
    /\ hpc[lastBatch[1]] = "done"
    /\ Sends(lastBatch[1]) = 1 /\ Sends(lastBatch[2]) = 1

(***************************************************************************)
(* C2: every request that Submit accepted ends with a delivery.  Finite    *)
(* form: once the worker goroutine has stopped, which is the last moment a *)
(* delivery could still be made, no accepted request is left without a     *)
(* value on its channels.                                                  *)
(***************************************************************************)
C2_AcceptedRequestsAreDelivered ==
    WorkerStopped =>
      \A r \in Ids : hpc[r] \in {"waiting", "done"} => Sends(r) >= 1

(***************************************************************************)
(* C3: all members of a group of the latest batch are delivered the same   *)
(* value over the same channel; for S3Batcher.executeGroupedRequests that  *)
(* value is the outcome of the one backend call made for the group, the    *)
(* call for the group's first request (one execution, N deliveries).       *)
(***************************************************************************)
C3_GroupSharesOutcome ==
    ~direct =>
      \A r1 \in LastSupported :
        /\ \A r2 \in LastSupported :
             SameGroup(r1, r2) =>
               /\ Delivered(r1) = Delivered(r2)
               /\ OnResultChan(r1) = OnResultChan(r2)
        /\ kind = "S3" =>
             \E i \in 1..Len(callLog) :
               /\ callLog[i].members[1] = Representative(r1)
               /\ r1 \in Range(callLog[i].members)
               /\ \A j \in 1..Len(callLog) : r1 \in Range(callLog[j].members) => j = i
               /\ Delivered(r1) = callLog[i].out
               /\ OnResultChan(r1) = callLog[i].out.ok

\* a group of two whose call failed: both members hold the same error
C3_Witness ==
    /\ ~direct
    /\ kind = "S3"
    /\ Len(lastBatch) = 2
    /\ lastBatch[1] # lastBatch[2]
    /\ SameGroup(lastBatch[1], lastBatch[2])
    /\ Supported(req[lastBatch[1]])
    /\ Delivered(lastBatch[1]) = Delivered(lastBatch[2])
    /\ ~Delivered(lastBatch[1]).ok
    /\ Delivered(lastBatch[1]).rep = lastBatch[1]

(***************************************************************************)
(* C4: the number of backend operations issued for the latest batch equals *)
(* the number of distinct (operation type, grouping-key tuple) pairs among *)
(* its supported requests.                                                 *)
(***************************************************************************)
C4_CallsEqualDistinctTuples ==
    ~direct => Len(callLog) = Cardinality({GroupTuple(req[r]) : r \in LastSupported})

(***************************************************************************)
(* C5: two supported requests of the latest batch were served by the same  *)
(* backend operation if and only if their types and grouping-key tuples    *)
(* are equal.                                                              *)
(***************************************************************************)
C5_SameGroupIffSameTuple ==
    ~direct =>
      \A r1, r2 \in LastSupported :
        InSameCall(r1, r2) <=> GroupTuple(req[r1]) = GroupTuple(req[r2])

(***************************************************************************)
(* C6: a request whose Submit was called after Shutdown had begun holds a  *)
(* "shutting down" error from its ErrorChan, and no backend operation was  *)
(* issued for it.                                                          *)
(***************************************************************************)
C6_LateSubmitFailsWithShutdownError ==
    \A r \in Ids :
        late[r] =>
          /\ Delivered(r) = ErrShuttingDown
          /\ ~OnResultChan(r)
          /\ \A i \in 1..Len(callLog) : r \notin Range(callLog[i].members)

C8_ServerStopsBeforeBatcher ==
    /\ ShutdownBegun => ~Accepting
    /\ \A r \in Ids : ~late[r]

(***************************************************************************)
(* C9: a Get whose key does not exist (the server replied nil) delivers an *)
(* empty value on ResultChan to every request it serves, never an error.   *)
(***************************************************************************)
C9_MissingKeyIsEmptyValue ==
    \A i \in 1..Len(callLog) :
        (callLog[i].Type = TypeGet /\ callLog[i].out = RedisNil) =>
          \A m \in Range(callLog[i].members) :
            /\ OnResultChan(m)
            /\ Delivered(m).ok
            /\ Delivered(m).str = EmptyStr

(***************************************************************************)
(* C10: when a command of the latest pipeline failed with an error of its  *)
(* own, the requests of every command that succeeded hold the result of    *)
(* their own command.                                                      *)
(***************************************************************************)
C10_CommandErrorStaysInItsGroup ==
    (/\ ~direct
     /\ \E i \in 1..Len(callLog) : callLog[i].out = Error("server error", callLog[i].members[1]))
    => \A j \in 1..Len(callLog) :
         callLog[j].out.ok =>
           \A m \in Range(callLog[j].members) :
             /\ OnResultChan(m)
             /\ Delivered(m) = callLog[j].out

(***************************************************************************)
(* C11: when pipe.Exec of the latest batch returned a transport error,     *)
(* every request of that batch that contributed a command holds exactly    *)
(* that error, received over ErrorChan, and nothing on ResultChan.         *)
(***************************************************************************)
C11_TransportErrorReachesEveryMember ==
    (~direct /\ execErr = ErrTransport) =>
      \A r \in LastSupported :
        /\ Sends(r) = 1
        /\ Delivered(r) = ErrTransport
        /\ ~OnResultChan(r)

\* a pipeline of two commands (two groups) failed on the connection and
\* both requests hold the error
C11_Witness ==
    /\ kind = "Redis"
    /\ ~direct
    /\ execErr = ErrTransport
    /\ Len(callLog) = 2
    /\ Len(lastBatch) = 2
    /\ \A r \in Range(lastBatch) : Delivered(r) = ErrTransport

(***************************************************************************)
(* C12: every SET the batcher sent to the server in its latest work        *)
(* carries exactly the key and the value of the requests it serves; and    *)
(* when that SET was the only command and succeeded, the key now holds the *)
(* request's value, so that a following Get of the key returns it.         *)
(***************************************************************************)
C12_SetThenGetReturnsValue ==
    \A i \in 1..Len(callLog) :
        callLog[i].Type = TypeSet =>
          \A m \in Range(callLog[i].members) :
            /\ callLog[i].Key = req[m].Key
            /\ callLog[i].Value = req[m].Value
            /\ (callLog[i].out.ok /\ Len(callLog) = 1) => store[req[m].Key] = req[m].Value

(***************************************************************************)
(* C13: whenever the key-value batcher issued commands for a batch, they   *)
(* went out in exactly one pipeline round trip, and the pipeline held one  *)
(* command per group of equivalent requests (one command for each distinct *)
(* grouping-key tuple among the requests of the batch).                    *)
(***************************************************************************)
C13_OnePipelineOneCommandPerGroup ==
    (kind \in {"Redis", "Simple"} /\ ~direct /\ callLog # <<>>) =>
      /\ trips = 1
      /\ Len(callLog) = Cardinality({GroupTuple(req[r]) : r \in LastSupported})

(***************************************************************************)
(* C14: every batch the worker hands to processBatch holds at least one    *)
(* and at most max_batch_size requests, whatever max_batch_size the agent  *)
(* was configured with.                                                    *)
(***************************************************************************)
C14_BatchSizeWithinCap ==
    /\ Collected => (Len(batch) >= 1 /\ Len(batch) <= maxBatchSize)
    /\ (~direct /\ lastBatch # <<>>) => Len(lastBatch) <= maxBatchSize

(***************************************************************************)
(* C14, amended: the same for every configured max_batch_size of at least  *)
(* one.                                                                    *)
(***************************************************************************)
C14_BatchSizeWithinPositiveCap ==
    maxBatchSize >= 1 => C14_BatchSizeWithinCap

\* a batch was closed at exactly max_batch_size = 1 while the next request
\* was already in the channel
C14_Witness ==
    /\ maxBatchSize = 1
    /\ wpc = "collect"
    /\ Collected
    /\ Len(batch) = 1
    /\ pendingRequests # <<>>

(***************************************************************************)
(* C15: a batch that has reached exactly max_batch_size requests is closed *)
(* and processed at once: whatever the state of the window timer, the      *)
(* worker's next step is processBatch, and it neither waits for the timer  *)
(* nor takes another request.                                              *)
(***************************************************************************)
C15_FullBatchClosesWithoutTimer ==
    (Running /\ wpc = "collect" /\ Len(batch) = maxBatchSize) =>
      /\ ENABLED (WorkerProcessS3 \/ WorkerProcessRedis)
      /\ ~ENABLED WorkerCollect
      /\ ~ENABLED WorkerWindow
      /\ ~ENABLED WorkerChanClosed

\* the batch is full and the window timer has not fired
C15_Witness ==
    /\ Running
    /\ wpc = "collect"
    /\ Len(batch) = maxBatchSize
    /\ timer = "armed"
    /\ ENABLED (WorkerProcessS3 \/ WorkerProcessRedis)

(***************************************************************************)
(* C16: once the window timer of the current batch has fired, the worker   *)
(* adds no further request to that batch, even when more requests are      *)
(* ready in the submission channel.                                        *)
(***************************************************************************)
C16_NoRequestJoinsAfterWindow ==
    [][(wpc = "collect" /\ timer = "fired") => Len(batch') <= Len(batch)]_vars

(***************************************************************************)
(* C17: a batch holding fewer than max_batch_size requests is closed for   *)
(* processing only when the window timer started at its first request has  *)
(* fired, or the submission channel is closed; an expiry left over from    *)
(* before the first request arrived never closes it.                       *)
(***************************************************************************)
C17_PartialBatchClosesOnItsOwnWindow ==
    [][(wpc = "collect" /\ wpc' = "process") => (timer = "fired" \/ closed)]_vars

(***************************************************************************)
(* C18: with batching disabled, Submit makes exactly one backend call for  *)
(* its request (none for a request of unrecognized type, which gets the    *)
(* unsupported-operation error), on the caller's task; the outcome is on   *)
(* the request's delivery channel when Submit returns; the submission      *)
(* channel, the worker and the batch window are never used.                *)
(***************************************************************************)
C18_DisabledSubmitIsOneSynchronousCall ==
    ~enabled =>
      /\ pendingRequests = <<>> /\ sendq = <<>> /\ batch = <<>>
      /\ timer = "off" /\ wpc = "none"
      /\ \A r \in 1..NReq : hpc[r] \in {"waiting", "done"} => Sends(r) = 1
      /\ lastBatch # <<>> =>
           /\ direct
           /\ Len(lastBatch) = 1
           /\ IF Supported(req[lastBatch[1]])
                THEN /\ Len(callLog) = 1
                     /\ callLog[1].members = lastBatch
                     /\ callLog[1].Type = req[lastBatch[1]].Type
                ELSE /\ callLog = <<>>
                     /\ Delivered(lastBatch[1]) = ErrUnsupported

\* both requests went through a disabled batcher; the second one's outcome
\* is on its channel before its handler has read it
C18_Witness ==
    /\ ~enabled
    /\ hpc[1] = "done"
    /\ hpc[2] = "waiting"
    /\ lastBatch = <<2>>
    /\ Supported(req[2])
    /\ Len(callLog) = 1
    /\ Sends(2) = 1

(***************************************************************************)
(* C19: a request of unrecognized type gets the unsupported-operation      *)
(* error, once, on its error channel, and is a member of no backend call;  *)
(* the other requests of its batch are grouped and executed as if it were  *)
(* absent: each of them is in exactly one call, every call holds supported *)
(* requests only, and there is one call per group of supported requests.   *)
(***************************************************************************)
C19_UnsupportedFailsAloneWithoutCall ==
    /\ \A r \in Range(lastBatch) \ LastSupported :
         /\ Sends(r) = 1
         /\ Delivered(r) = ErrUnsupported
         /\ ~OnResultChan(r)
         /\ \A i \in 1..Len(callLog) : r \notin Range(callLog[i].members)
    /\ \A i \in 1..Len(callLog) : Range(callLog[i].members) \subseteq LastSupported
    /\ \A r \in LastSupported :
         Cardinality({i \in 1..Len(callLog) : r \in Range(callLog[i].members)}) = 1
    /\ Len(callLog) =
         Cardinality({<<req[r].Type, GroupKey(req[r])>> : r \in LastSupported})

\* a batch of a request of unknown type and a supported one: one call, made
\* for the supported request, whose handler has its result
C19_Witness ==
    /\ ~direct
    /\ Len(lastBatch) = 2
    /\ ~Supported(req[lastBatch[1]])
    /\ Supported(req[lastBatch[2]])
    /\ Delivered(lastBatch[1]) = ErrUnsupported
    /\ Len(callLog) = 1
    /\ callLog[1].members = <<lastBatch[2]>>
    /\ hpc[lastBatch[2]] = "done"
    /\ got[lastBatch[2]].ok

(***************************************************************************)
(* C20: the Body of every GetObject output is closed exactly once after it *)
(* was copied, also when the call served a coalesced group of N > 1        *)
(* handlers: no body is ever closed twice, and once every handler of the   *)
(* call has finished the body has been closed once.                        *)
(***************************************************************************)
C20_BodyClosedExactlyOnce ==
    /\ \A r \in Ids : closes[r] <= 1
    /\ kind = "S3" =>
         \A i \in 1..Len(callLog) :
           (/\ callLog[i].Type = TypeGetObject
            /\ callLog[i].out.ok
            /\ \A m \in Range(callLog[i].members) : cpc[m] = "closed")
             => closes[callLog[i].members[1]] = 1

(***************************************************************************)
(* C21: every handler of a GetObject call, also of a call that served a    *)
(* coalesced group of N > 1 handlers, writes the complete object to its    *)
(* HTTP response: when the handler has finished with the body, its         *)
(* response holds every chunk of the object, in order.                     *)
(***************************************************************************)
C21_EveryMemberGetsTheWholeObject ==
    \A r \in Ids : cpc[r] = "closed" => wrote[r] = [i \in 1..BodyLen |-> i]

(***************************************************************************)
(* C22: the Batcher is the only sender on a request's two delivery         *)
(* channels and the request's own handler is the only receiver: a value    *)
(* leaves ResultChan or ErrorChan of request r only in the step in which   *)
(* the handler of r receives it, and no handler's receive puts a value on  *)
(* a channel; the worker never receives from a delivery channel.           *)
(***************************************************************************)
C22_HandlerIsTheOnlyReceiver ==
    [][\A r \in Ids :
         /\ (\/ Len(ResultChan'[r]) < Len(ResultChan[r])
             \/ Len(ErrorChan'[r]) < Len(ErrorChan[r]))
              => (hpc[r] = "waiting" /\ hpc'[r] = "done")
         /\ (\/ Len(ResultChan'[r]) > Len(ResultChan[r])
             \/ Len(ErrorChan'[r]) > Len(ErrorChan[r]))
              => \A q \in Ids : hpc[q] = "waiting" => hpc'[q] = "waiting"]_vars

(***************************************************************************)
(* C23: the worker never blocks on a delivery channel while it processes a *)
(* batch, so that it returns to waiting for the first request of the next  *)
(* batch: no send finds a delivery channel full, and the worker never      *)
(* waits to receive from delivery channels that are empty.                 *)
(***************************************************************************)
C23_WorkerNeverBlocksOnDelivery ==
    /\ \A r \in Ids : Len(ResultChan[r]) + Len(ErrorChan[r]) <= 1
    /\ (wpc = "forward" /\ fi >= 1) =>
         (ResultChan[Head(todo)[1]] # <<>> \/ ErrorChan[Head(todo)[1]] # <<>>)

(***************************************************************************)
(* C24: with batching enabled the submission channel never holds more than *)
(* 10 x max_batch_size requests, and a Submit that found it full blocks    *)
(* its handler, without the request being dropped or rejected, until the   *)
(* worker takes a request and the blocked request gets through.            *)
(***************************************************************************)
C24_FullChannelBlocksWithoutLoss ==
    [][/\ Len(pendingRequests') <= Capacity'
       /\ \A r \in Ids : hpc[r] = "sending" => hpc'[r] \in {"sending", "waiting"}]_vars

(***************************************************************************)
(* C25: a request that lacks a required parameter is answered with 400 and *)
(* never reaches the batcher: the step that rejects it builds and submits  *)
(* no request and leaves the submission channel, the worker's batch, the   *)
(* delivery channels and the backend as they were, and the rejected        *)
(* handler is never in the channel or in a batch afterwards.               *)
(***************************************************************************)
C25_MissingParameterIs400WithoutSubmit ==
    [][\A r \in Ids :
         /\ (hpc[r] = "idle" /\ hpc'[r] = "rejected") =>
              /\ status'[r] = StatusBadRequest
              /\ UNCHANGED <<req, pendingRequests, sendq, batch, lastBatch,
                             callLog, store, trips, ResultChan, ErrorChan,
                   pingErr,
                   flagSet,
                   environ,
                   config>>
         /\ hpc'[r] = "rejected" =>
              /\ req'[r] = NoRequest
              /\ r \notin Range(pendingRequests') \cup Range(sendq')
                          \cup Range(batch') \cup Range(lastBatch')]_vars

\* the second request was rejected while the first one was in the channel
C25_Witness ==
    /\ hpc[2] = "rejected"
    /\ status[2] = StatusBadRequest
    /\ req[2] = NoRequest
    /\ pendingRequests = <<1>>

(***************************************************************************)
(* C28: GET /health is answered with 200 in every state in which the agent *)
(* serves, whatever the backend, the submission channel and the worker are *)
(* doing, and handling it makes no Submit and changes neither the channel, *)
(* the batches, the delivery channels nor the backend.                     *)
(***************************************************************************)
C28_HealthIs200AndTouchesNothing ==
    [][\A r \in Ids :
         /\ (Accepting /\ hpc[r] = "idle" /\ (r > 1 => hpc[r - 1] # "idle"))
              => ENABLED HandlerHealth(r)
         /\ (hpc[r] = "idle" /\ hpc'[r] = "healthy") =>
              /\ status'[r] = StatusOK
              /\ UNCHANGED <<req, pendingRequests, sendq, batch, lastBatch,
                             callLog, store, trips, ResultChan, ErrorChan,
                             clientClosed,
                   pingErr,
                   flagSet,
                   environ,
                   config>>]_vars

\* a health check was answered while the worker was collecting a batch
C28_Witness ==
    /\ hpc[2] = "healthy"
    /\ status[2] = StatusOK
    /\ wpc = "collect"
    /\ batch = <<1>>

\* C26: once the shutdown has run to its end (the grace period of
\* server.Shutdown is over and main has returned) no handler is left blocked
\* on its delivery channels: every handler that was waiting has been
\* unblocked with a value
C26_NoHandlerBlockedAfterGracePeriod ==
    lpc = "exited" => \A r \in Ids : hpc[r] # "waiting"

\* C27: grouping is per batch only.  In the step in which the worker
\* processes a batch, values are sent only to the requests of that batch,
\* every backend call of the step serves requests of that batch only, and
\* every supported request of the batch is served by one of the calls of
\* this step: nothing is carried over from, or to, another batch
C27_GroupingIsPerBatch ==
    [][(enabled /\ batch # <<>> /\ batch' = <<>>) =>
        /\ \A r \in Ids \ Range(batch) :
              ResultChan'[r] = ResultChan[r] /\ ErrorChan'[r] = ErrorChan[r]
        /\ \A i \in 1..Len(callLog') :
              /\ callLog'[i].members # <<>>
              /\ Range(callLog'[i].members) \subseteq Range(batch)
        /\ \A r \in Range(batch) :
              /\ Len(ResultChan'[r]) + Len(ErrorChan'[r]) = 1
              /\ Supported(req[r]) =>
                    \E i \in 1..Len(callLog') : r \in Range(callLog'[i].members)
              /\ (kind = "S3" /\ Supported(req[r])) =>
                    \A v \in Range(ResultChan'[r]) \cup Range(ErrorChan'[r]) :
                        v.rep \in Range(batch)]_vars

\* two equal requests were served in two batches: request 1 has its value
\* from an earlier batch, request 2 was alone in the latest batch and got a
\* value from that batch's own call
C27_Witness ==
    /\ enabled
    /\ req[1] = req[2]
    /\ Supported(req[2])
    /\ hpc[1] = "done"
    /\ got[1].ok
    /\ lastBatch = <<2>>
    /\ Len(callLog) = 1
    /\ callLog[1].members = <<2>>
    /\ Delivered(2).ok

\* C29: a failed connectivity probe at startup is only a warning: it never
\* ends the process, the agent goes on to serve
C29_FailedProbeIsOnlyAWarning ==
    pingErr => lpc # "fatal"

\* C30: once main has built its Configuration, every option that has a
\* flag and an environment variable holds the variable's value when the
\* variable is set (to a string that has a value of the option's type),
\* and the flag's value (its default when the flag was not given) when the
\* variable is not set; in the object-store agent and in the key-value
\* agents alike
C30_EnvironmentOverridesFlag ==
    LET OptionsOf(k) ==
            IF k = "Simple" THEN {"port", "batch-window", "max-batch-size"}
            ELSE FlagNames
        EnvOf(f) ==
            CASE f = "port" -> "PORT"
              [] f = "batching" -> "BATCHING_ENABLED"
              [] f = "batch-window" -> "BATCH_WINDOW"
              [] f = "max-batch-size" -> "MAX_BATCH_SIZE"
              [] f = "debug" -> "DEBUG_MODE"
        FieldOf(f) ==
            CASE f = "port" -> "Port"
              [] f = "batching" -> "BatchingEnabled"
              [] f = "batch-window" -> "BatchWindow"
              [] f = "max-batch-size" -> "MaxBatchSize"
              [] f = "debug" -> "DebugMode"
        ValueOf(f, str) ==
            CASE f \in {"port", "max-batch-size"} -> Atoi(str)
              [] f \in {"batching", "debug"} -> ParseBool(str)
              [] f = "batch-window" -> ParseDuration(str)
    IN  lpc = "starting" =>
            \A f \in OptionsOf(kind) :
                /\ ~environ[EnvOf(f)].ok => config[FieldOf(f)] = flagSet[f]
                /\ (environ[EnvOf(f)].ok /\ ValueOf(f, environ[EnvOf(f)].val).ok) =>
                      config[FieldOf(f)] = ValueOf(f, environ[EnvOf(f)].val).v

\* C31: Shutdown terminates.  Backend calls always return in this model, so
\* termination fails exactly when the run comes to rest while Shutdown is
\* still in b.wg.Wait(): pendingRequests is closed, the worker has not left
\* its loop and no step of the program is possible any more.  There is no
\* such state, whatever was queued or batched when Shutdown was called
C31_ShutdownNeverStuck ==
    ~(/\ lpc = "wgWait"
      /\ closed
      /\ wpc # "exited"
      /\ ~ENABLED NextForward)

\* C32: in the simple (non-coalescing) pipelined batcher the i-th pipeline
\* response goes to the request that issued the i-th command: after a batch
\* that went through a pipeline whose Exec gave no global error, every
\* request of the batch was sent the Result of its own command, and
\* processing the batch did not panic
C32_ResponseGoesToItsOwnRequest ==
    (/\ kind = "Simple"
     /\ Len(callLog) = Len(lastBatch)
     /\ execErr \in {NoValue, RedisNil}) =>
        /\ wpc # "panicked"
        /\ \A i \in 1..Len(lastBatch) :
              /\ Sends(lastBatch[i]) = 1
              /\ Delivered(lastBatch[i]) =
                    SimpleResult(req[lastBatch[i]].Type, callLog[i].out)

\* C33: the single worker partitions the admitted requests.  A request
\* that joins the batch is the one just taken off the submission channel,
\* is not in the batch already, is no longer in the channel and has never
\* been processed; when a batch is processed every supported request of it
\* is a member of exactly one call (group), once, and nothing is collected
\* during processing; and a new batch is opened only after every request of
\* the previous batch has been sent its value
C33_WorkerPartitionsRequests ==
    [][/\ (batch' # batch /\ batch' # <<>>) =>
             /\ batch' = Append(batch, Received)
             /\ Received \notin Range(batch)
             /\ Received \notin Range(pendingRequests')
             /\ Sends(Received) = 0
       /\ (enabled /\ batch # <<>> /\ batch' = <<>>) =>
             /\ lastBatch' = batch
             /\ pendingRequests' = pendingRequests
             /\ \A r \in Range(batch) : Supported(req[r]) =>
                   /\ Cardinality({i \in 1..Len(callLog') :
                                      r \in Range(callLog'[i].members)}) = 1
                   /\ \A i \in 1..Len(callLog') :
                         Cardinality({j \in 1..Len(callLog'[i].members) :
                                         callLog'[i].members[j] = r}) <= 1
       /\ (batch = <<>> /\ batch' # <<>>) =>
             \A r \in Range(lastBatch) : Sends(r) = 1]_vars

\* two batches were made of two admitted requests: request 1 was processed
\* alone and has received its value, request 2 was processed alone after it
C33_Witness ==
    /\ enabled
    /\ lastBatch = <<2>>
    /\ hpc[1] = "done"
    /\ Sends(2) = 1
    /\ Supported(req[1])
    /\ Supported(req[2])
    /\ batch = <<>>

\* C34: in a run of the simple agent's main, b.shutdown is closed at most
\* once: every step in which Batcher.Shutdown is entered (the explicit call
\* after server.Shutdown, and the deferred call when main returns) finds
\* the channel still open
C34_ShutdownChannelClosedOnce ==
    [][(/\ kind = "Simple"
        /\ \/ lpc = "serverDraining" /\ lpc' = "wgWait"
           \/ lpc = "batcherDown" /\ lpc' = "crashed") => ~closed]_vars

\* C35: within one batch of the coalescing key-value batcher the pipeline
\* commands are queued in the type order GET, SET, DEL, EXISTS, whatever
\* the order of submission; so every GET of the batch is answered from the
\* keyspace as it was before the batch (before every Set of the batch), and
\* when the pipeline had no error that value is what the Get requests are
\* sent
C35_GetsRunBeforeSets ==
    [][(kind = "Redis" /\ enabled /\ batch # <<>> /\ batch' = <<>>) =>
        LET Rank(t) == CASE t = TypeGet -> 1 [] t = TypeSet -> 2
                         [] t = TypeDel -> 3 [] OTHER -> 4
        IN  /\ \A i, j \in 1..Len(callLog') :
                  i < j => Rank(callLog'[i].Type) <= Rank(callLog'[j].Type)
            /\ \A i \in 1..Len(callLog') : callLog'[i].Type = TypeGet =>
                  /\ callLog'[i].out.ok => callLog'[i].out.str = store[callLog'[i].Key]
                  /\ callLog'[i].out = RedisNil => store[callLog'[i].Key] = Missing
            /\ execErr' = NoValue =>
                  \A r \in Range(batch) : req[r].Type = TypeGet =>
                      /\ Len(ResultChan'[r]) = 1
                      /\ ResultChan'[r][1].str = store[req[r].Key]]_vars

\* Set(a, "a:a") was submitted first and Get(a) second, in one batch: the
\* Get was sent "a", the value of a before the Set, and a now holds "a:a"
C35_Witness ==
    /\ kind = "Redis"
    /\ enabled
    /\ lastBatch = <<1, 2>>
    /\ req[1] = BatchRequest(TypeSet, EmptyStr, sA, EmptyStr, 0, sAA)
    /\ req[2] = BatchRequest(TypeGet, EmptyStr, sA, EmptyStr, 0, EmptyStr)
    /\ Len(callLog) = 2
    /\ callLog[1].Type = TypeGet
    /\ callLog[2].Type = TypeSet
    /\ Delivered(2).ok
    /\ Delivered(2).str = sA
    /\ store[sA] = sAA

=============================================================================
